---- MODULE Spec2Model ----
(***************************************************************************)
(* NANOS (named and numbered ordered storage): a model of the container    *)
(* of src/src/nanos.esm.js.  One action per public call; every call runs   *)
(* to completion (or to its throw) inside its action.                      *)
(*                                                                         *)
(* Keys are strings, as in the code ('0', '1', 'a'); String() and          *)
(* parseInt() are the conversions between index keys and numbers.          *)
(* _storage is the JS object holding the values: a function from its own   *)
(* property names to [value, writable]; lock() and freeze() make a         *)
(* property non-writable and non-configurable together, so one flag        *)
(* records both.                                                           *)
(***************************************************************************)
EXTENDS Integers, Sequences, FiniteSets, TLC

\* inner is a second container, one that may be stored as a value in the
\* first (the value innerRef)
VARIABLES _keys, _storage, _next, _locked, _lockInd, _lockNew, _redacted,
          frozen, thrown, inner

vars == <<_keys, _storage, _next, _locked, _lockInd, _lockNew, _redacted, frozen, thrown, inner>>

(***************************************************************************)
(* Bounds of the model                                                     *)
(***************************************************************************)
\* next never exceeds MaxNext in the Spec runs (guard of every call)
MaxNext == 3
\* next never exceeds MaxNextL in the SpecLock runs
MaxNextL == 2
\* next never exceeds MaxNextP in the SpecPlace runs
MaxNextP == 4
\* next never exceeds MaxNextF in the SpecFreeze runs
MaxNextF == 1
\* next never exceeds MaxNextS in the SpecSparse runs
MaxNextS == 10
\* next never exceeds MaxNextQ in the SpecParse runs
MaxNextQ == 6
\* next never exceeds MaxNextT in the SpecSLID runs
MaxNextT == 4

\* the example of the README: 2 pushed values
MaxNextE == 2

MaxItemsE == 2

\* containers with an adapter attached
MaxNextA == 3

\* the invocations of a callback a traversal is followed for
MaxVisits == 8

\* texts in compact mode
MaxNextC == 2
\* length of a pushed or unshifted sparse array
MaxLength == 5
\* number of arguments of one push / unshift call, pairs of one fromPairs /
\* fromEntries call
MaxItems == 1

\* the JS value undefined (also: "no key given"); it is not the string
\* 'undefined'
undefined == "<undefined>"
\* the JS value true, as the argument of redact(true)
jsTrue == "true"

Values == {"x", "y"}

(***************************************************************************)
(* Keys: isIndex, isNegIndex, String, parseInt                             *)
(***************************************************************************)
\* numbers a key of the model can denote (wide enough for every intermediate
\* result of a call whose final next is within the bound)
NumRange == (0 - (4 * MaxNext + 8))..(4 * MaxNext + 8)

String(n) == ToString(n)

IndexStrings == {String(n) : n \in {m \in NumRange : m >= 0}}

NegIndexStrings == {String(n) : n \in {m \in NumRange : m < 0}}

\* /^(?:0|[1-9]\d*)$/
isIndex(key) == key \in IndexStrings

\* /^-[1-9]\d*$/
isNegIndex(key) == key \in NegIndexStrings

ParseTable == [key \in IndexStrings \cup NegIndexStrings |-> CHOOSE n \in NumRange : String(n) = key]

parseInt(key) == ParseTable[key]

(***************************************************************************)
(* The container as a value: the fields of `this`, plus whether the call   *)
(* being executed has thrown.                                              *)
(***************************************************************************)
NoRedact == [kind |-> "undefined", flags |-> {}]

EmptyStorage == [k \in {} |-> [value |-> undefined, writable |-> TRUE]]

\* constructor with no items: this._options = {}; this.clear(); this.push()
NewNANOS == [keys |-> <<>>, storage |-> EmptyStorage, next |-> 0, locked |-> FALSE, lockInd |-> FALSE, lockNew |-> FALSE, redacted |-> NoRedact, frozen |-> FALSE, thrown |-> FALSE]

this == [keys |-> _keys, storage |-> _storage, next |-> _next, locked |-> _locked, lockInd |-> _lockInd, lockNew |-> _lockNew, redacted |-> _redacted, frozen |-> frozen, thrown |-> FALSE]

\* a TypeError leaves the fields as they are at the throw
Throw(s) == [s EXCEPT !.thrown = TRUE]

\* a property key is a string: undefined is coerced to 'undefined'
PropertyKey(key) == IF key = undefined THEN "undefined" ELSE key

hasOwn(storage, key) == PropertyKey(key) \in DOMAIN storage

\* a faulty assignment check: a write to a non-writable property is let
\* through (sloppy mode)
canAssignSloppy(s, key) == ~s.frozen

\* storage[key] = value in strict mode is a TypeError on a non-writable
\* property, and on a new property of a frozen object
canAssign(s, key) == IF hasOwn(s.storage, key) THEN s.storage[key].writable ELSE ~s.frozen

assign(storage, key, value) ==
    IF hasOwn(storage, key) THEN [storage EXCEPT ![key].value = value]
    ELSE (key :> [value |-> value, writable |-> TRUE]) @@ storage

remove(storage, key) == [k \in (DOMAIN storage) \ {key} |-> storage[k]]

\* #wrapKey: a negative index counts from next; undefined when below 0
wrapKey(s, key) ==
    IF isNegIndex(key)
    THEN LET n == parseInt(key) + s.next IN IF n < 0 THEN undefined ELSE String(n)
    ELSE key

\* has(key)
has(s, key) == hasOwn(s.storage, wrapKey(s, key))

\* at(key), default undefined
at(s, key) ==
    LET k == wrapKey(s, key) IN IF hasOwn(s.storage, k) THEN s.storage[PropertyKey(k)].value ELSE undefined

\* isLocked() without a key
isLocked(s) == s.locked

\* !Object.getOwnPropertyDescriptor(this._storage, key)?.writable: true when
\* there is no such property
notWritable(s, key) == ~(hasOwn(s.storage, key) /\ s.storage[PropertyKey(key)].writable)

\* isLocked(key), key wrapped
isLockedWrapped(s, key) == (s.locked /\ ~hasOwn(s.storage, key)) \/ notWritable(s, key)

\* isLocked(key) with a key
isLockedKey(s, key) == IF key = undefined THEN s.locked ELSE isLockedWrapped(s, wrapKey(s, key))

(***************************************************************************)
(* lock, lockAll, lockKeys, freeze                                         *)
(***************************************************************************)
\* Object.defineProperty(this._storage, key, {value: this.at(key),
\* enumerable: true, writable: false, configurable: false}); it creates the
\* property when the key is absent, which a frozen _storage refuses
defineLocked(s, key) ==
    IF s.thrown \/ key = undefined THEN s
    ELSE IF hasOwn(s.storage, key) THEN [s EXCEPT !.storage[key].writable = FALSE]
    ELSE IF s.frozen THEN Throw(s)
    ELSE [s EXCEPT !.storage = (key :> [value |-> undefined, writable |-> FALSE]) @@ s.storage]

\* if (isIndex(key)) this._lockInd = true: a TypeError on a frozen object
lockWrapped(s, key) ==
    defineLocked(IF ~isIndex(key) THEN s ELSE IF s.frozen THEN Throw(s) ELSE [s EXCEPT !.lockInd = TRUE], key)

\* one round of the loop of lock(...keys)
lockOne(s, key0) == IF s.thrown THEN s ELSE lockWrapped(s, wrapKey(s, key0))

RECURSIVE lockLoop(_, _, _)
lockLoop(s, keys, i) ==
    IF i > Len(keys) \/ s.thrown THEN s ELSE lockLoop(lockOne(s, keys[i]), keys, i + 1)

lock(s, keys) == lockLoop(s, keys, 1)

\* if (andNew) this._lockNew = true; this.lock(this._keys)
lockAll(s, andNew) ==
    lock(IF ~andNew THEN s ELSE IF s.frozen THEN Throw(s) ELSE [s EXCEPT !.lockNew = TRUE], s.keys)

lockKeys(s) == IF s.frozen THEN Throw(s) ELSE [s EXCEPT !.locked = TRUE]

freeze(s) ==
    [s EXCEPT !.locked = TRUE, !.lockInd = TRUE, !.frozen = TRUE,
              !.storage = [k \in DOMAIN s.storage |-> [s.storage[k] EXCEPT !.writable = FALSE]]]

(***************************************************************************)
(* clear, delete, set                                                      *)
(***************************************************************************)
\* a faulty clear: no check of the key-set lock, which it resets as it
\* resets the index lock
clearAll(s) ==
    [s EXCEPT !.next = 0, !.keys = <<>>, !.storage = EmptyStorage, !.lockInd = FALSE, !.locked = FALSE, !.redacted = NoRedact]

clear(s) ==
    IF s.locked THEN Throw(s)
    ELSE [s EXCEPT !.next = 0, !.keys = <<>>, !.storage = EmptyStorage, !.lockInd = FALSE, !.redacted = NoRedact]

\* a faulty delete: the key stays in the key sequence
deleteStorageOnly(s, skey) ==
    IF s.thrown THEN s
    ELSE IF s.locked THEN Throw(s)
    ELSE IF ~hasOwn(s.storage, skey) THEN s
    ELSE IF ~s.storage[skey].writable THEN Throw(s)
    ELSE [s EXCEPT !.storage = remove(s.storage, skey)]

\* delete(key): String(key), not wrapped
delete(s, skey) ==
    IF s.thrown THEN s
    ELSE IF s.locked THEN Throw(s)
    ELSE IF ~hasOwn(s.storage, skey) THEN s
    \* delete this._storage[skey]: a TypeError on a non-configurable property
    ELSE IF ~s.storage[skey].writable THEN Throw(s)
    ELSE [s EXCEPT !.storage = remove(s.storage, skey), !.keys = SelectSeq(s.keys, LAMBDA k : k # skey)]

splice(keys, ki, skey) == SubSeq(keys, 1, ki) \o <<skey>> \o SubSeq(keys, ki + 1, Len(keys))

\* insert mode: while (ki > 0 && (!isIndex(keys[ki - 1]) || ind < keys[ki - 1])) --ki
RECURSIVE insertScan(_, _, _)
insertScan(keys, ind, ki) ==
    IF ki > 0 /\ (~isIndex(keys[ki]) \/ ind < parseInt(keys[ki])) THEN insertScan(keys, ind, ki - 1) ELSE ki

\* append mode: while (ki < keys.length && (!isIndex(keys[ki]) || ind > keys[ki])) ++ki
RECURSIVE appendScan(_, _, _)
appendScan(keys, ind, ki) ==
    IF ki < Len(keys) /\ (~isIndex(keys[ki + 1]) \/ ind > parseInt(keys[ki + 1])) THEN appendScan(keys, ind, ki + 1) ELSE ki

\* a faulty placement of a named key: insert mode is ignored
placeNamedAtEnd(s, skey, insert) ==
    [s EXCEPT !.keys = Append(s.keys, skey)]

\* the placement of a new named key
placeNamed(s, skey, insert) ==
    [s EXCEPT !.keys = IF insert THEN <<skey>> \o s.keys ELSE Append(s.keys, skey)]

\* a faulty placement of an index key: no scan for its position
placeIndexUnscanned(s, skey, ind, insert) ==
    [s EXCEPT !.keys = IF insert THEN <<skey>> \o s.keys ELSE Append(s.keys, skey),
              !.next = IF ind >= s.next THEN ind + 1 ELSE s.next]

\* a faulty placement of an index key: next is left alone
placeIndexKeepNext(s, skey, ind, insert) ==
    [s EXCEPT !.keys = IF insert
                       THEN splice(s.keys, insertScan(s.keys, ind, Len(s.keys)), skey)
                       ELSE splice(s.keys, appendScan(s.keys, ind, 0), skey)]

\* the placement of a new index key ind, and next
placeIndex(s, skey, ind, insert) ==
    [s EXCEPT !.keys = IF insert
                       THEN IF s.next = 0 THEN <<skey>> \o s.keys
                            ELSE splice(s.keys, insertScan(s.keys, ind, Len(s.keys)), skey)
                       ELSE IF ind >= s.next THEN Append(s.keys, skey)
                            ELSE splice(s.keys, appendScan(s.keys, ind, 0), skey),
              !.next = IF ind >= s.next THEN ind + 1 ELSE s.next]

\* a faulty placement: the key is placed whether it is new or not
placeAlways(s, skey, insert) ==
    IF isIndex(skey) THEN placeIndex(s, skey, parseInt(skey), insert)
    ELSE placeNamed(s, skey, insert)

\* the key or index is new: add it in the proper place (lines 875-896)
place(s, skey, insert) ==
    IF hasOwn(s.storage, skey) THEN s
    ELSE IF isIndex(skey) THEN placeIndex(s, skey, parseInt(skey), insert)
    ELSE placeNamed(s, skey, insert)

\* a faulty sticky lock: new keys are left unlocked
lockNewSkipped(s, skey) == s

\* if (this._lockNew) this.lock(skey)
lockNew(s, skey) == IF s.lockNew THEN lock(s, <<skey>>) ELSE s

\* this._storage[skey] = value, then the sticky lock
store(s, skey, value) ==
    IF ~canAssign(s, skey) THEN Throw(s)
    ELSE lockNew([s EXCEPT !.storage = assign(s.storage, skey, value)], skey)

setWrapped(s, key, value, insert) ==
    IF key = undefined THEN s ELSE store(place(s, key, insert), key, value)

set(s, key0, value, insert) ==
    IF s.thrown THEN s
    ELSE IF s.locked THEN Throw(s)
    ELSE setWrapped(s, wrapKey(s, IF key0 = undefined THEN String(s.next) ELSE key0), value, insert)

(***************************************************************************)
(* next (setter), pop, #renumber, shift, reverse                           *)
(***************************************************************************)
\* a faulty truncation: --i > nn, index nn stays
RECURSIVE truncateAbove(_, _, _)
truncateAbove(s, i, nn) ==
    IF s.thrown \/ i <= nn THEN s ELSE truncateAbove(delete(s, String(i)), i - 1, nn)

\* for (let i = this._next; --i >= nn; this.delete(i));
RECURSIVE truncate(_, _, _)
truncate(s, i, nn) ==
    IF s.thrown \/ i < nn THEN s ELSE truncate(delete(s, String(i)), i - 1, nn)

assignNext(s, nn) == IF s.thrown THEN s ELSE [s EXCEPT !.next = nn]

\* set next (nn), nn an integer; a negative nn is ignored
setNext(s, nn) ==
    IF s.thrown THEN s
    ELSE IF s.locked THEN Throw(s)
    ELSE IF nn < 0 THEN s
    ELSE assignNext(truncate(s, s.next - 1, nn), nn)

\* const ret = this._storage[skey]: what delete(key) returns (no rio: the
\* final value is the raw value)
\* a number assigned to next: the integer n, or the non-integer n + 1/2
Integer(n) == [integer |-> TRUE, floor |-> n]

Fraction(n) == [integer |-> FALSE, floor |-> n]

\* set next (nn) for any number: if (!Number.isInteger(nn) || nn < 0) return
setNextNumber(s, nn) ==
    IF s.thrown THEN s
    ELSE IF s.locked THEN Throw(s)
    ELSE IF ~nn.integer THEN s
    ELSE setNext(s, nn.floor)

deleteReturn(s, skey) == IF hasOwn(s.storage, skey) THEN s.storage[skey].value ELSE undefined

\* what pop() returns when it does not throw
popReturn(s) == IF s.next = 0 THEN undefined ELSE deleteReturn(s, String(s.next - 1))

\* what shift() returns when it does not throw: const res = this.delete(0, opts)
shiftReturn(s) == IF s.next = 0 THEN undefined ELSE deleteReturn(s, "0")

\* a faulty pop: this._next-- instead of --this._next
popPostDecrement(s) ==
    IF s.locked \/ s.lockInd THEN Throw(s)
    ELSE IF s.next = 0 THEN s
    ELSE delete([s EXCEPT !.next = s.next - 1], String(s.next))

\* a faulty pop: no check of the index lock
popUnchecked(s) ==
    IF s.locked THEN Throw(s)
    ELSE IF s.next = 0 THEN s
    ELSE delete([s EXCEPT !.next = s.next - 1], String(s.next - 1))

\* return this.delete(--this._next, opts)
pop(s) ==
    IF s.locked \/ s.lockInd THEN Throw(s)
    ELSE IF s.next = 0 THEN s
    ELSE delete([s EXCEPT !.next = s.next - 1], String(s.next - 1))

\* delete this._storage[k], inside move
moveDelete(s, from) ==
    IF ~s.storage[from].writable THEN Throw(s) ELSE [s EXCEPT !.storage = remove(s.storage, from)]

\* move(k, by) of #renumber
move(s, from, to) ==
    IF s.thrown \/ ~hasOwn(s.storage, from) THEN s
    ELSE IF ~canAssign(s, to) THEN Throw(s)
    ELSE moveDelete([s EXCEPT !.storage = assign(s.storage, to, s.storage[from].value)], from)

\* by > 0: for (let k = to; --k >= from; ) move(k, by)
\* by < 0: for (let k = from; k < to; ++k) move(k, by)
RECURSIVE moveLoop(_, _, _, _, _)
moveLoop(s, k, from, to, by) ==
    IF s.thrown \/ k < from \/ k >= to THEN s
    ELSE moveLoop(move(s, String(k), String(k + by)), IF by > 0 THEN k - 1 ELSE k + 1, from, to, by)

\* a faulty key map: ind > from instead of ind >= from
renumberKeyAbove(key, from, to, by) ==
    IF isIndex(key) /\ parseInt(key) > from /\ parseInt(key) < to THEN String(parseInt(key) + by) ELSE key

renumberKey(key, from, to, by) ==
    IF isIndex(key) /\ parseInt(key) >= from /\ parseInt(key) < to THEN String(parseInt(key) + by) ELSE key

renumberKeys(s, from, to, by) ==
    IF s.thrown THEN s
    ELSE [s EXCEPT !.keys = [i \in 1..Len(s.keys) |-> renumberKey(s.keys[i], from, to, by)]]

renumber(s, from, to, by) ==
    IF s.thrown \/ by = 0 THEN s
    ELSE renumberKeys(moveLoop([s EXCEPT !.next = IF by > 0 THEN (IF to + by > s.next THEN to + by ELSE s.next)
                                                    ELSE (IF to >= s.next THEN s.next + by ELSE s.next)],
                               IF by > 0 THEN to - 1 ELSE from, from, to, by), from, to, by)

\* this.#renumber(1, this._next, -1)
shiftRenumber(s) == IF s.thrown THEN s ELSE renumber(s, 1, s.next, 0 - 1)

shift(s) ==
    IF s.locked \/ s.lockInd THEN Throw(s)
    ELSE IF s.next = 0 THEN s
    ELSE shiftRenumber(delete(s, "0"))

toReversed(seq) == [i \in 1..Len(seq) |-> seq[Len(seq) + 1 - i]]

reverseKey(ok, last) == IF isIndex(ok) THEN String(last - parseInt(ok)) ELSE ok

\* a faulty reverse: the keys renamed, each value left under its old key
reversedStorageUnmoved(s, oks, nks) ==
    [nk \in {nks[i] : i \in 1..Len(nks)} |-> [value |-> at(s, nk), writable |-> TRUE]]

\* the storage object reverse() builds: ns[nk] = s[ok] in the order of the
\* loop, every property writable
reversedStorage(s, oks, nks) ==
    [nk \in {nks[i] : i \in 1..Len(nks)} |->
        [value |-> at(s, oks[CHOOSE j \in 1..Len(nks) : nks[j] = nk /\ \A l \in (j + 1)..Len(nks) : nks[l] # nk]),
         writable |-> TRUE]]

reverseInto(s, oks, last) ==
    [s EXCEPT !.keys = [i \in 1..Len(oks) |-> reverseKey(oks[i], last)],
              !.storage = reversedStorage(s, oks, [i \in 1..Len(oks) |-> reverseKey(oks[i], last)])]

\* a faulty reverse: the keys renamed but taken first to last
reverseUnturned(s) == IF s.locked THEN Throw(s) ELSE reverseInto(s, s.keys, s.next - 1)

reverse(s) == IF s.locked THEN Throw(s) ELSE reverseInto(s, toReversed(s.keys), s.next - 1)

(***************************************************************************)
(* push, fromEntries, unshift, fromPairs                                   *)
(* An argument of push / unshift is a scalar, or one of the transparent    *)
(* containers pushOuter tells apart: a plain object (Object.entries, no    *)
(* next), an array (Object.entries leaves the holes out, next = length),   *)
(* a NANOS (entries(), next).  Options are the defaults (no transform).    *)
(***************************************************************************)
Scalar(v) == [kind |-> "scalar", value |-> v, entries |-> <<>>, next |-> 0]

PlainObject(es) == [kind |-> "object", value |-> undefined, entries |-> es, next |-> 0]

Array(es, length) == [kind |-> "array", value |-> undefined, entries |-> es, next |-> length]

Nanos(es, next) == [kind |-> "nanos", value |-> undefined, entries |-> es, next |-> next]

\* the loop of pushEntries: an index key is offset by base
RECURSIVE pushLoop(_, _, _, _)
pushLoop(s, es, i, base) ==
    IF s.thrown \/ i > Len(es) THEN s
    ELSE pushLoop(set(s, IF isIndex(es[i][1]) THEN String(base + parseInt(es[i][1])) ELSE es[i][1], es[i][2], FALSE),
                  es, i + 1, base)

\* a faulty pushEntries: next is left where the last set() put it
atLeastNextSkipped(s, minNext) == s

\* if (this._next < minNext) this._next = minNext
atLeastNext(s, minNext) ==
    IF s.thrown \/ s.next >= minNext THEN s ELSE [s EXCEPT !.next = minNext]

pushEntries(s, es, next) == atLeastNext(pushLoop(s, es, 1, s.next), s.next + next)

pushOuter(s, outer) ==
    IF s.thrown THEN s
    ELSE IF outer.kind = "scalar" THEN set(s, undefined, outer.value, FALSE)
    ELSE pushEntries(s, outer.entries, outer.next)

RECURSIVE pushValues(_, _, _)
pushValues(s, values, i) ==
    IF s.thrown \/ i > Len(values) THEN s ELSE pushValues(pushOuter(s, values[i]), values, i + 1)

push(s, values) == IF s.locked THEN Throw(s) ELSE pushValues(s, values, 1)

\* entries(): the [key, value] pairs in key order
entries(s) == [i \in 1..Len(s.keys) |-> <<s.keys[i], s.storage[s.keys[i]].value>>]

\* similar(item): a new container with the same options, the item pushed
similar(outer) == push(NewNANOS, <<outer>>)

RECURSIVE setEach(_, _, _, _)
setEach(s, es, i, insert) ==
    IF s.thrown \/ i > Len(es) THEN s ELSE setEach(set(s, es[i][1], es[i][2], insert), es, i + 1, insert)

\* insert mode sets the entries last to first
fromEntries(s, es, insert) ==
    IF s.thrown THEN s
    ELSE IF s.locked THEN Throw(s)
    ELSE IF insert /\ s.lockInd THEN Throw(s)
    ELSE setEach(s, IF insert THEN toReversed(es) ELSE es, 1, insert)

\* a faulty unshift: the renumbering starts at index 1
unshiftNANOSFromOne(s, outer) == fromEntries(renumber(s, 1, s.next, outer.next), entries(outer), TRUE)

\* this.#renumber(0, this._next, outer.next); this.fromEntries(outer.entries(), true)
unshiftNANOS(s, outer) == fromEntries(renumber(s, 0, s.next, outer.next), entries(outer), TRUE)

\* the container an argument stands for: itself, or this.similar(outer)
asNANOS(outer) ==
    IF outer.kind = "nanos"
    THEN [NewNANOS EXCEPT !.keys = [i \in 1..Len(outer.entries) |-> outer.entries[i][1]],
                          !.storage = [k \in {outer.entries[i][1] : i \in 1..Len(outer.entries)} |->
                                          [value |-> (CHOOSE e \in {outer.entries[i] : i \in 1..Len(outer.entries)} : e[1] = k)[2], writable |-> TRUE]],
                          !.next = outer.next]
    ELSE similar(outer)

unshiftOuter(s, outer) == IF s.thrown THEN s ELSE unshiftNANOS(s, asNANOS(outer))

RECURSIVE unshiftValues(_, _, _)
unshiftValues(s, values, i) ==
    IF s.thrown \/ i > Len(values) THEN s ELSE unshiftValues(unshiftOuter(s, values[i]), values, i + 1)

\* a faulty unshift: the arguments taken left to right
unshiftForward(s, values) ==
    IF s.locked \/ s.lockInd THEN Throw(s) ELSE unshiftValues(s, values, 1)

unshift(s, values) ==
    IF s.locked \/ s.lockInd THEN Throw(s) ELSE unshiftValues(s, toReversed(values), 1)

\* a slot pair of the flat pairs array that is a hole: key undefined and
\* no value slot
emptySlot == "<empty>"

\* if (pairs[i] === undefined && !(i + 1 in pairs)) ++this._next; else this.set(...)
pairStep(s, pair) ==
    IF pair[1] = undefined /\ pair[2] = emptySlot THEN [s EXCEPT !.next = s.next + 1]
    ELSE set(s, pair[1], pair[2], FALSE)

RECURSIVE pairsLoop(_, _, _)
pairsLoop(s, pairs, i) ==
    IF s.thrown \/ i > Len(pairs) THEN s ELSE pairsLoop(pairStep(s, pairs[i]), pairs, i + 1)

\* fromPairs([k1, v1, ...]); pairs is the sequence of the <<k, v>>
fromPairs(s, pairs) == IF s.locked THEN Throw(s) ELSE pairsLoop(s, pairs, 1)

\* fromPairs({type: '@NANOS@', next, pairs})
fromPairsJSON(s, pairs, next) ==
    IF s.locked THEN Throw(s) ELSE setNext(fromPairs(s, pairs), next)

(***************************************************************************)
(* redact                                                                  *)
(***************************************************************************)
\* this._redacted ||= {}; this._redacted[isIndex(key) ? 0 : key] = true:
\* the assignments throw on a frozen container (and its frozen _redacted)
redactFlag(s, key) ==
    IF s.frozen THEN Throw(s)
    ELSE [s EXCEPT !.redacted = [kind |-> "object", flags |-> s.redacted.flags \cup {IF isIndex(key) THEN "0" ELSE key}]]

\* if (key === true) this._redacted = true
redactTrue(s, key) ==
    IF key # jsTrue THEN s ELSE IF s.frozen THEN Throw(s) ELSE [s EXCEPT !.redacted = [kind |-> "true", flags |-> {}]]

\* if (this._redacted === true) return
RECURSIVE redactLoop(_, _, _)
redactRest(s, keys, i) ==
    IF s.thrown \/ s.redacted.kind = "true" THEN s ELSE redactLoop(redactFlag(s, keys[i]), keys, i + 1)

redactLoop(s, keys, i) ==
    IF s.thrown \/ i > Len(keys) THEN s ELSE redactRest(redactTrue(s, keys[i]), keys, i)

redact(s, keys) == redactLoop(s, keys, 1)

(***************************************************************************)
(* The calls a container makes of its reactive adapter (_rio) when one is  *)
(* attached: a sequence of records, a changed() or a batch() with the      *)
(* number of batch() calls it is made inside.  batch(fn) calls fn.  The    *)
(* operators follow the code of the calls above, state by state.           *)
(***************************************************************************)
\* this._rio?.changed()
changed(depth) == <<[call |-> "changed", depth |-> depth]>>

\* batch(() => ...): the batch call, then the calls its callback makes
batch(depth, calls) == <<[call |-> "batch", depth |-> depth]>> \o calls

\* lock(...keys): changed() after the loop
lockCalls(s, keys, depth) == IF lock(s, keys).thrown THEN <<>> ELSE changed(depth)

lockAllCalls(s, andNew, depth) == IF lockAll(s, andNew).thrown THEN <<>> ELSE changed(depth)

lockKeysCalls(s, depth) == IF lockKeys(s).thrown THEN <<>> ELSE changed(depth)

clearCalls(s, depth) == IF clear(s).thrown THEN <<>> ELSE changed(depth)

reverseCalls(s, depth) == IF reverse(s).thrown THEN <<>> ELSE changed(depth)

\* redact(...keys): return (no changed()) once _redacted is true
redactCalls(s, keys, depth) ==
    IF redact(s, keys).thrown \/ (keys # <<>> /\ redact(s, keys).redacted.kind = "true") THEN <<>> ELSE changed(depth)

\* delete(key): changed() inside if (Object.hasOwn(this._storage, skey))
deleteCalls(s, skey, depth) ==
    IF s.thrown \/ ~hasOwn(s.storage, skey) \/ delete(s, skey).thrown THEN <<>> ELSE changed(depth)

\* set(key, value): the changed() of lock(skey) under _lockNew, then
\* if (changed) this._rio?.changed()
setWrappedCalls(s, key, depth) ==
    IF key = undefined THEN <<>>
    ELSE (IF s.lockNew THEN changed(depth) ELSE <<>>) \o (IF hasOwn(s.storage, key) THEN <<>> ELSE changed(depth))

setCalls(s, key0, value, insert, depth) ==
    IF s.thrown \/ set(s, key0, value, insert).thrown THEN <<>>
    ELSE setWrappedCalls(s, wrapKey(s, IF key0 = undefined THEN String(s.next) ELSE key0), depth)

\* for (let i = this._next; --i >= nn; this.delete(i));
RECURSIVE truncateCalls(_, _, _, _)
truncateCalls(s, i, nn, depth) ==
    IF s.thrown \/ i < nn THEN <<>>
    ELSE deleteCalls(s, String(i), depth) \o truncateCalls(delete(s, String(i)), i - 1, nn, depth)

\* set next (nn): the deletes, then changed() if (this._next !== nn); no
\* batch
setNextCalls(s, nn, depth) ==
    IF s.thrown \/ s.locked \/ nn < 0 THEN <<>>
    ELSE truncateCalls(s, s.next - 1, nn, depth)
         \o (IF truncate(s, s.next - 1, nn).thrown \/ s.next = nn THEN <<>> ELSE changed(depth))

setNextNumberCalls(s, nn, depth) == IF nn.integer THEN setNextCalls(s, nn.floor, depth) ELSE <<>>

\* pop(): return this.delete(--this._next, opts)
popCalls(s, depth) ==
    IF s.locked \/ s.lockInd \/ s.next = 0 THEN <<>>
    ELSE deleteCalls([s EXCEPT !.next = s.next - 1], String(s.next - 1), depth)

\* shift(): batch(() => { this.delete(0, opts); this.#renumber(...) })
shiftCalls(s, depth) ==
    IF s.locked \/ s.lockInd \/ s.next = 0 THEN <<>>
    ELSE batch(depth, deleteCalls(s, "0", depth + 1))

RECURSIVE pushLoopCalls(_, _, _, _, _)
pushLoopCalls(s, es, i, base, depth) ==
    IF s.thrown \/ i > Len(es) THEN <<>>
    ELSE setCalls(s, IF isIndex(es[i][1]) THEN String(base + parseInt(es[i][1])) ELSE es[i][1], es[i][2], FALSE, depth)
         \o pushLoopCalls(set(s, IF isIndex(es[i][1]) THEN String(base + parseInt(es[i][1])) ELSE es[i][1], es[i][2], FALSE),
                          es, i + 1, base, depth)

\* pushOuter: this.set(undefined, outer), or pushEntries, which ends with
\* this._next = minNext and no changed()
pushOuterCalls(s, outer, depth) ==
    IF s.thrown THEN <<>>
    ELSE IF outer.kind = "scalar" THEN setCalls(s, undefined, outer.value, FALSE, depth)
    ELSE pushLoopCalls(s, outer.entries, 1, s.next, depth)

RECURSIVE pushValuesCalls(_, _, _, _)
pushValuesCalls(s, values, i, depth) ==
    IF s.thrown \/ i > Len(values) THEN <<>>
    ELSE pushOuterCalls(s, values[i], depth) \o pushValuesCalls(pushOuter(s, values[i]), values, i + 1, depth)

\* push(...values): batch(() => values.forEach(pushOuter))
pushCalls(s, values, depth) ==
    IF s.locked THEN <<>> ELSE batch(depth, pushValuesCalls(s, values, 1, depth + 1))

RECURSIVE setEachCalls(_, _, _, _, _)
setEachCalls(s, es, i, insert, depth) ==
    IF s.thrown \/ i > Len(es) THEN <<>>
    ELSE setCalls(s, es[i][1], es[i][2], insert, depth) \o setEachCalls(set(s, es[i][1], es[i][2], insert), es, i + 1, insert, depth)

\* fromEntries(entries, insert): batch(() => { ...this.set(...); this._rio?.changed() })
fromEntriesCalls(s, es, insert, depth) ==
    IF s.thrown \/ s.locked \/ (insert /\ s.lockInd) THEN <<>>
    ELSE batch(depth, setEachCalls(s, IF insert THEN toReversed(es) ELSE es, 1, insert, depth + 1)
                      \o (IF fromEntries(s, es, insert).thrown THEN <<>> ELSE changed(depth + 1)))

\* this.#renumber(0, this._next, outer.next); this.fromEntries(outer.entries(), true)
unshiftOuterCalls(s, outer, depth) ==
    IF s.thrown THEN <<>>
    ELSE fromEntriesCalls(renumber(s, 0, s.next, asNANOS(outer).next), entries(asNANOS(outer)), TRUE, depth)

RECURSIVE unshiftValuesCalls(_, _, _, _)
unshiftValuesCalls(s, values, i, depth) ==
    IF s.thrown \/ i > Len(values) THEN <<>>
    ELSE unshiftOuterCalls(s, values[i], depth) \o unshiftValuesCalls(unshiftOuter(s, values[i]), values, i + 1, depth)

\* unshift(...values): batch(() => values.toReversed().forEach(...))
unshiftCalls(s, values, depth) ==
    IF s.locked \/ s.lockInd THEN <<>>
    ELSE batch(depth, unshiftValuesCalls(s, toReversed(values), 1, depth + 1))

pairStepCalls(s, pair, depth) ==
    IF pair[1] = undefined /\ pair[2] = emptySlot THEN <<>> ELSE setCalls(s, pair[1], pair[2], FALSE, depth)

RECURSIVE pairsLoopCalls(_, _, _, _)
pairsLoopCalls(s, pairs, i, depth) ==
    IF s.thrown \/ i > Len(pairs) THEN <<>>
    ELSE pairStepCalls(s, pairs[i], depth) \o pairsLoopCalls(pairStep(s, pairs[i]), pairs, i + 1, depth)

\* fromPairs(...pairs): batch(() => { for ...; this._rio?.changed() })
fromPairsCalls(s, pairs, depth) ==
    IF s.locked THEN <<>>
    ELSE batch(depth, pairsLoopCalls(s, pairs, 1, depth + 1)
                      \o (IF fromPairs(s, pairs).thrown THEN <<>> ELSE changed(depth + 1)))

(***************************************************************************)
(* forEach, find, findLast, filter.  A callback f(value, key, container)   *)
(* is a record: what it does to the container when it is invoked.  A loop  *)
(* for (const k of array) holds the array object and a position: set adds  *)
(* a key to the array this._keys in place, delete assigns a new array to   *)
(* this._keys and leaves the old one as it was.                            *)
(***************************************************************************)
Idle == [act |-> "none", key |-> undefined, insert |-> FALSE]

\* f sets a fixed key (undefined: the next index)
Setting(key, insert) == [act |-> "set", key |-> key, insert |-> insert]

\* f deletes a fixed key
Deleting(key) == [act |-> "delete", key |-> key, insert |-> FALSE]

\* f deletes the key it is invoked for
DeletingVisited == [act |-> "deleteVisited", key |-> undefined, insert |-> FALSE]

\* the container after f(value, k, this)
callback(s, f, k) ==
    IF f.act = "set" THEN set(s, f.key, "x", f.insert)
    ELSE IF f.act = "delete" THEN delete(s, f.key)
    ELSE IF f.act = "deleteVisited" THEN delete(s, k)
    ELSE s

\* f(value, k, this) has assigned a new array to this._keys: the
\* this._keys = this._keys.filter(...) of delete
assignsKeys(s, f, k) ==
    \/ f.act = "delete" /\ hasOwn(s.storage, f.key) /\ ~delete(s, f.key).thrown
    \/ f.act = "deleteVisited" /\ hasOwn(s.storage, k) /\ ~delete(s, k).thrown

\* the outcome of a traversal: the container, the keys f was invoked for,
\* in order, and whether the loop has ended
Traversal(s, visits, finished) == [container |-> s, visits |-> visits, finished |-> finished]

\* for (const k of array) { ... f(final, k, this) ... } from position i on:
\* array is the array the iterator holds, live while it is this._keys; the
\* loop returns when f is true, which it is for the key stopAt; at most
\* fuel invocations are followed
RECURSIVE iterate(_, _, _, _, _, _, _, _)
iterateNext(r, array, live, i, f, stopAt, visits, fuel) ==
    iterate(r, IF live THEN r.keys ELSE array, live, i, f, stopAt, visits, fuel)

iterate(s, array, live, i, f, stopAt, visits, fuel) ==
    IF s.thrown \/ i > Len(array) THEN Traversal(s, visits, TRUE)
    ELSE IF fuel = 0 THEN Traversal(s, visits, FALSE)
    ELSE IF array[i] = stopAt THEN Traversal(callback(s, f, array[i]), Append(visits, array[i]), TRUE)
    ELSE iterateNext(callback(s, f, array[i]), array, live /\ ~assignsKeys(s, f, array[i]), i + 1, f, stopAt,
                     Append(visits, array[i]), fuel - 1)

\* forEach(f): for (const k of this._keys)
forEach(s, f) == iterate(s, s.keys, TRUE, 1, f, undefined, <<>>, MaxVisits)

\* find(f): for (const k of this._keys), return at the first true f
find(s, f, stopAt) == iterate(s, s.keys, TRUE, 1, f, stopAt, <<>>, MaxVisits)

\* findLast(f): for (const k of this._keys.toReversed())
findLast(s, f, stopAt) == iterate(s, toReversed(s.keys), FALSE, 1, f, stopAt, <<>>, MaxVisits)

\* filter(f): [...this.entries(opts)].filter((kv) => f(kv[1], kv[0], this))
filter(s, f) == iterate(s, s.keys, FALSE, 1, f, undefined, <<>>, MaxVisits)

\* push(this): pushEntries(this.entries(), this.next) from position i of
\* the generator on; entries() walks this._keys itself while set() adds the
\* offset index keys to it; at most fuel entries are followed
RECURSIVE pushSelfLoop(_, _, _, _, _)
pushSelfLoop(s, i, base, visits, fuel) ==
    IF s.thrown \/ i > Len(s.keys) THEN Traversal(s, visits, TRUE)
    ELSE IF fuel = 0 THEN Traversal(s, visits, FALSE)
    ELSE pushSelfLoop(set(s, IF isIndex(s.keys[i]) THEN String(base + parseInt(s.keys[i])) ELSE s.keys[i],
                          s.storage[s.keys[i]].value, FALSE),
                      i + 1, base, Append(visits, s.keys[i]), fuel - 1)

\* if (this._next < minNext) this._next = minNext, once the loop has ended
pushSelfEnd(r, minNext) ==
    IF r.finished THEN Traversal(atLeastNext(r.container, minNext), r.visits, TRUE) ELSE r

\* n.push(n)
pushSelf(s) ==
    IF s.locked THEN Traversal(Throw(s), <<>>, TRUE)
    ELSE pushSelfEnd(pushSelfLoop(s, 1, s.next, <<>>, MaxVisits), s.next + s.next)

(***************************************************************************)
(* SLID text.  A JS value stored in a container that is written as SLID is  *)
(* a record [type, str, num, nanos]: a string, a number, undefined, or a   *)
(* nested container (nanos holds it).  A text is the sequence of its       *)
(* lexemes, the pieces slidRE splits it into, white space included; Join   *)
(* gives the string.                                                       *)
(***************************************************************************)
Str(s) == [type |-> "string", str |-> s, num |-> 0, nanos |-> <<>>]

Num(n) == [type |-> "number", str |-> "", num |-> n, nanos |-> <<>>]

Undef == [type |-> "undefined", str |-> "", num |-> 0, nanos |-> <<>>]

Nested(c) == [type |-> "nanos", str |-> "", num |-> 0, nanos |-> <<c>>]

\* the strings that occur as keys and values of the texts
SlidStrings == {"a", "b", "c", "two", "ok", "id", "status", "1", "o'k", "+5", "@e"}

\* /^[~!#$%^&*()+.,:;<>?A-Z{}_][~!@#$%^&*()+.,0-9:;<>?A-Z{}_-]*$/i
WordLiterals == {"a", "b", "c", "two", "ok", "id", "status", "+5"}

\* escapeJSString: a quote gets a backslash
escapeJSString(s) == IF s = "o'k" THEN "o\\'k" ELSE s

\* "'" + escape(value) + "'"
Quoted(s) == "'" \o escapeJSString(s) \o "'"

\* unescapeJSString(token.slice(1, -1))
Unquoted(token) == CHOOSE s \in SlidStrings : Quoted(s) = token

QuotedStrings == {Quoted(s) : s \in SlidStrings}

\* slidNum: the lexemes that are numbers (flt, int), a sign included
NumberLexemes == {String(n) : n \in NumRange} \cup {"+5"}

\* parseFloat(token)
parseFloat(token) == IF token = "+5" THEN 5 ELSE CHOOSE n \in NumRange : String(n) = token

\* items.join(' ')
RECURSIVE joinItems(_, _)
joinItems(items, i) ==
    IF i > Len(items) THEN <<>>
    ELSE (IF i > 1 THEN <<" ">> ELSE <<>>) \o items[i] \o joinItems(items, i + 1)

\* valueToStr for a string: word-literal or quoted string
stringToStr(s) == IF s \in WordLiterals THEN s ELSE Quoted(s)

\* valueToStr(en[0]): a key is a string
keyToStr(key) == <<stringToStr(key)>>

\* a faulty indexItem: the index is always written
indexItemExplicit(ind, expInd, text) == <<String(ind), "=">> \o text

\* the item of an index entry: explicit 'ind=' unless ind is the expected
\* index
indexItem(ind, expInd, text) == (IF ind = expInd THEN <<>> ELSE <<String(ind), "=">>) \o text

\* valueToStr and itemsToStr of toSLID(options): redacting is the redact
\* option (true or false; not 'comment'), compact is false
RECURSIVE valueToStr(_, _), itemsToStr(_, _), itemsLoop(_, _, _, _, _)
valueToStr(value, redacting) ==
    IF value.type = "undefined" THEN <<"@u">>
    ELSE IF value.type = "number" THEN <<String(value.num)>>
    ELSE IF value.type = "string" THEN <<stringToStr(value.str)>>
    ELSE <<"[">> \o itemsToStr(value.nanos[1], redacting) \o <<"]">>

\* property names every plain object inherits from Object.prototype
ObjectPrototype == {"constructor", "toString", "valueOf", "hasOwnProperty"}

\* a faulty isRedacted: only redact(true) counts
isRedactedWhole(node, key) == node.redacted.kind = "true"

\* isRedacted(key) for the key of an entry (0 for every index entry):
\* !!this._redacted?.[key] reads own and inherited properties of the plain
\* object _redacted
isRedacted(node, key) ==
    \/ node.redacted.kind = "true"
    \/ (IF isIndex(key) THEN "0" ELSE key) \in node.redacted.flags
    \/ node.redacted.kind = "object" /\ ~isIndex(key) /\ key \in ObjectPrototype

\* for (const en of node.entries()) ...: the items pushed from entry i on
itemsLoop(node, i, expInd, items, redacting) ==
    IF i > Len(node.keys) THEN items
    ELSE IF redacting /\ isRedacted(node, node.keys[i]) THEN itemsLoop(node, i + 1, expInd, items, redacting)
    ELSE IF isIndex(node.keys[i])
    THEN itemsLoop(node, i + 1, parseInt(node.keys[i]) + 1,
                   Append(items, indexItem(parseInt(node.keys[i]), expInd, valueToStr(node.storage[node.keys[i]].value, redacting))),
                   redacting)
    ELSE itemsLoop(node, i + 1, expInd,
                   Append(items, keyToStr(node.keys[i]) \o <<"=">> \o valueToStr(node.storage[node.keys[i]].value, redacting)),
                   redacting)

itemsToStr(node, redacting) ==
    IF redacting /\ node.redacted.kind = "true" THEN <<>>
    ELSE joinItems(itemsLoop(node, 1, 0, <<>>, redacting), 1)

\* toSLID({ redact }): '[(' + itemsToStr(this) + ')]'
toSLID(s, redacting) == <<"[(">> \o itemsToStr(s, redacting) \o <<")]">>

\* toString(): this.toSLID({ redact: true })
toString(s) == toSLID(s, TRUE)

\* /['"\[\]]/: the lexeme is a quoted string or a bracket
quoteOrBracket(lexeme) == lexeme \in QuotedStrings \cup {"[", "]"}

\* /['"\[\]]/.test(joint): joint is tail + item[0], and tail, the array
\* parts.slice(-1).slice(-1), is the whole item before
jointTest(tail, item) == (\E j \in 1..Len(tail) : quoteOrBracket(tail[j])) \/ quoteOrBracket(item[1])

\* squished(items): if (tail && !test) parts.push(' '); parts.push(item)
RECURSIVE squished(_, _)
squished(items, i) ==
    IF i > Len(items) THEN <<>>
    ELSE (IF i > 1 /\ ~jointTest(items[i - 1], items[i]) THEN <<" ">> ELSE <<>>) \o items[i] \o squished(items, i + 1)

\* valueToStr and itemsToStr of toSLID({ compact: true }): redact is false
RECURSIVE valueToStrCompact(_), itemsCompact(_, _, _, _)
valueToStrCompact(value) ==
    IF value.type = "nanos" THEN <<"[">> \o squished(itemsCompact(value.nanos[1], 1, 0, <<>>), 1) \o <<"]">>
    ELSE valueToStr(value, FALSE)

itemsCompact(node, i, expInd, items) ==
    IF i > Len(node.keys) THEN items
    ELSE IF isIndex(node.keys[i])
    THEN itemsCompact(node, i + 1, parseInt(node.keys[i]) + 1,
                      Append(items, indexItem(parseInt(node.keys[i]), expInd, valueToStrCompact(node.storage[node.keys[i]].value))))
    ELSE itemsCompact(node, i + 1, expInd,
                      Append(items, keyToStr(node.keys[i]) \o <<"=">> \o valueToStrCompact(node.storage[node.keys[i]].value)))

\* toSLID({ compact: true })
toSLIDCompact(s) == <<"[(">> \o squished(itemsCompact(s, 1, 0, <<>>), 1) \o <<")]">>

\* the string a text stands for
RECURSIVE Join(_)
Join(text) == IF text = <<>> THEN "" ELSE Head(text) \o Join(Tail(text))

\* the value of an expression that throws a TypeError
TypeError == [type |-> "TypeError", str |-> "", num |-> 0, nanos |-> <<>>]

\* receiver.push(...values): a value that is no container has no method push;
\* push ends with return this
pushExpr(receiver, values) ==
    IF receiver.type # "nanos" \/ push(receiver.nanos[1], values).thrown THEN TypeError
    ELSE Nested(push(receiver.nanos[1], values))

\* receiver.set(key, value): set ends with return value
setExpr(receiver, key, value) ==
    IF receiver.type # "nanos" \/ set(receiver.nanos[1], key, value, FALSE).thrown THEN TypeError
    ELSE value

\* receiver.toString(): the text as a string value; a number or a string has
\* a toString of its own
toStringExpr(receiver) ==
    IF receiver.type = "nanos" THEN Str(Join(toString(receiver.nanos[1])))
    ELSE IF receiver.type = "number" THEN Str(String(receiver.num))
    ELSE IF receiver.type = "string" THEN receiver
    ELSE TypeError

\* the lexeme is matched by the pattern oth of slidPats or is a number: no
\* quote, bracket, = or white space in it
isOther(lexeme) == lexeme \notin QuotedStrings \cup {"[", "]", "=", " ", "[(", ")]"}

\* the lexeme starts with a letter or a digit
startsAlnum(lexeme) == lexeme \notin {"+5", "@e", "@u"} \cup NegIndexStrings

\* a lexeme that follows a token with nothing in between is part of that
\* token: oth takes every character up to a quote, bracket, = or space, and
\* a number (flt, int) ends only where no letter or digit follows
joins(token, lexeme) ==
    isOther(token) /\ isOther(lexeme) /\ (token \in NumberLexemes => startsAlnum(lexeme))

\* str.split(slidRE) from lexeme i on
RECURSIVE splitSlid(_, _, _)
splitSlid(lexemes, i, tokens) ==
    IF i > Len(lexemes) THEN tokens
    ELSE IF tokens # <<>> /\ joins(tokens[Len(tokens)], lexemes[i])
    THEN splitSlid(lexemes, i + 1, [tokens EXCEPT ![Len(tokens)] = @ \o lexemes[i]])
    ELSE splitSlid(lexemes, i + 1, Append(tokens, lexemes[i]))

\* the tokens of parseSLID: the text between '[(' and ')]' split by slidRE,
\* without the white space
tokensOf(text) == SelectSeq(splitSlid(SubSeq(text, 2, Len(text) - 1), 1, <<>>), LAMBDA t : t # " ")

\* parseLeft: a number, a word-literal, or a quoted string
parseLeft(token) ==
    IF token \in NumberLexemes THEN Num(parseFloat(token))
    ELSE IF token \in QuotedStrings THEN Str(Unquoted(token))
    ELSE Str(token)

\* the key set() gets from a parsed key: String(key)
keyOf(value) == IF value.type = "number" THEN String(value.num) ELSE value.str

\* what a parsing function hands back: the value, the tokens left, and
\* whether it threw
Parsed(value, rest) == [value |-> value, rest |-> rest, error |-> FALSE]

ParseError == [value |-> Undef, rest |-> <<>>, error |-> TRUE]

\* a parsed list as a value
asValue(r) == IF r.error THEN r ELSE Parsed(Nested(r.value), r.rest)

\* a faulty @e: the slot is not counted
skipSlotKept(result) == result

\* ++result.next
skipSlot(result) == setNextNumber(result, Integer(result.next + 1))

\* parseRight and parseItems; setParsed is result.set(key, parseRight())
\* followed by the rest of the loop
RECURSIVE parseRight(_), parseItems(_, _), setParsed(_, _, _)
parseRight(tokens) ==
    IF tokens = <<>> THEN ParseError
    ELSE IF Head(tokens) = "[" THEN asValue(parseItems(Tail(tokens), NewNANOS))
    ELSE IF Head(tokens) = "@u" THEN Parsed(Undef, Tail(tokens))
    ELSE Parsed(parseLeft(Head(tokens)), Tail(tokens))

setParsed(result, key, r) ==
    IF r.error THEN r ELSE parseItems(r.rest, set(result, key, r.value, FALSE))

\* while (tokens.length && tokens[0] !== ']') ...; if (tokens[0] === ']') tokens.shift()
parseItems(tokens, result) ==
    IF tokens = <<>> THEN Parsed(result, <<>>)
    ELSE IF Head(tokens) = "]" THEN Parsed(result, Tail(tokens))
    ELSE IF Len(tokens) > 1 /\ tokens[2] = "="
    THEN setParsed(result, keyOf(parseLeft(tokens[1])), parseRight(SubSeq(tokens, 3, Len(tokens))))
    ELSE IF Head(tokens) = "@e"
    THEN parseItems(Tail(tokens), skipSlot(result))
    ELSE setParsed(result, undefined, parseRight(tokens))

\* SLID was malformed if any tokens are left
checkLeft(r) == IF r.error \/ r.rest # <<>> THEN ParseError ELSE r

\* parseSLID(str): the container, or a SyntaxError
parseSLID(text) ==
    IF Len(text) < 2 \/ text[1] # "[(" \/ text[Len(text)] # ")]" THEN ParseError
    ELSE checkLeft(parseItems(tokensOf(text), NewNANOS))

(***************************************************************************)
(* toJSON and the loading of its result by fromPairs                       *)
(***************************************************************************)
\* entries(true): ik(k), the number parseInt(k, 10) for an index key
compactKey(k) == IF isIndex(k) THEN Num(parseInt(k)) ELSE Str(k)

\* pairs(true): [...this.entries(opts)].flat(1), pair by pair
pairsCompact(s) == [i \in 1..Len(s.keys) |-> <<compactKey(s.keys[i]), s.storage[s.keys[i]].value>>]

\* toJSON(): {type: '@NANOS@', next: this._next, pairs: this.pairs(true)}
toJSON(s) == [type |-> "@NANOS@", next |-> s.next, pairs |-> pairsCompact(s)]

\* the pairs as set() takes them: const skey = String(key)
stringKeys(ps) == [i \in 1..Len(ps) |-> <<keyOf(ps[i][1]), ps[i][2]>>]

\* a faulty loading: this.next = pairs[0].next is left out
fromJSONPairsOnly(s, json) == fromPairs(s, stringKeys(json.pairs))

\* fromPairs(json), json the result of toJSON()
fromJSON(s, json) == fromPairsJSON(s, stringKeys(json.pairs), json.next)

(***************************************************************************)
(* The calls.  Each action is one public call, run to its return or to its *)
(* throw; thrown records whether the last call threw.  U is the universe   *)
(* the arguments are drawn from.                                           *)
(***************************************************************************)
IndexKeys(N) == {String(n) : n \in 0..(N - 1)}

Lists(S, M) == UNION {[1..n -> S] : n \in 1..M}

\* arguments of fromPairs: pairs with a key, pairs without (key undefined),
\* and holes
PairsOf(K) == (K \X {"x"}) \cup {<<undefined, "y">>, <<undefined, emptySlot>>}

\* keys, values, bound on next, arguments of push / unshift (at most M of
\* the items I), of fromEntries and of fromPairs (at most M entries, their
\* keys among EK)
Universe(K, V, N, I, EK, M) ==
    [keys |-> K, values |-> V, maxNext |-> N,
     itemLists |-> Lists(I, M),
     entryLists |-> Lists(EK \X {"y"}, M),
     pairLists |-> Lists(PairsOf(EK), M),
     pairs |-> PairsOf(EK)]

\* the call returned (or threw) leaving the container as s and the second
\* container as i
ReturnedBoth(s, maxNext, i) ==
    /\ s.next <= maxNext
    /\ _keys' = s.keys
    /\ _storage' = s.storage
    /\ _next' = s.next
    /\ _locked' = s.locked
    /\ _lockInd' = s.lockInd
    /\ _lockNew' = s.lockNew
    /\ _redacted' = s.redacted
    /\ frozen' = s.frozen
    /\ thrown' = s.thrown
    /\ inner' = i

\* a call of the first container does not reach the second
Returned(s, maxNext) == ReturnedBoth(s, maxNext, inner)

Init ==
    /\ _keys = <<>>
    /\ _storage = EmptyStorage
    /\ _next = 0
    /\ _locked = FALSE
    /\ _lockInd = FALSE
    /\ _lockNew = FALSE
    /\ _redacted = NoRedact
    /\ frozen = FALSE
    /\ thrown = FALSE
    /\ inner = NewNANOS

CallSet(U) ==
    \E key \in U.keys \cup {undefined, "-1"}, value \in U.values, insert \in BOOLEAN :
        Returned(set(this, key, value, insert), U.maxNext)

CallDelete(U) ==
    \E key \in U.keys : Returned(delete(this, key), _next)

CallClear == Returned(clear(this), _next)

CallSetNext(U) ==
    \E nn \in {Integer(n) : n \in (0 - 1)..U.maxNext} \cup {Fraction(0)} : Returned(setNextNumber(this, nn), U.maxNext)

CallPop == Returned(pop(this), _next)

CallShift == Returned(shift(this), _next)

CallReverse == Returned(reverse(this), _next)

CallPush(U) ==
    \E values \in U.itemLists : Returned(push(this, values), U.maxNext)

CallUnshift(U) ==
    \E values \in U.itemLists : Returned(unshift(this, values), U.maxNext)

CallFromEntries(U) ==
    \E es \in U.entryLists, insert \in BOOLEAN : Returned(fromEntries(this, es, insert), U.maxNext)

CallFromPairs(U) ==
    \E pairs \in U.pairLists : Returned(fromPairs(this, pairs), U.maxNext)

CallFromPairsJSON(U) ==
    \E pair \in U.pairs, next \in 0..U.maxNext : Returned(fromPairsJSON(this, <<pair>>, next), U.maxNext)

CallLock(U) ==
    \E key \in U.keys \cup {"-1"} : Returned(lock(this, <<key>>), _next)

CallLockAll ==
    \E andNew \in BOOLEAN : Returned(lockAll(this, andNew), _next)

CallLockKeys == Returned(lockKeys(this), _next)

\* the value that is (a reference to) the second container
innerRef == "<inner>"

\* for (const [_key, value] of this.entries()) if (value instanceof NANOS)
holdsInner(s) == \E i \in 1..Len(s.keys) : s.storage[s.keys[i]].value = innerRef

\* deepFreeze(): this.freeze(), then value.deepFreeze() for each NANOS value
\* (the second container holds no container)
CallDeepFreeze ==
    ReturnedBoth(freeze(this), _next, IF holdsInner(this) THEN freeze(inner) ELSE inner)

\* a faulty freeze: it freezes the containers stored as values too
CallFreezeDeep == CallDeepFreeze

CallFreeze == Returned(freeze(this), _next)

\* calls of the second container: set and lockKeys
CallInnerSet ==
    \E value \in Values : ReturnedBoth(this, _next, set(inner, "a", value, FALSE))

CallInnerLockKeys == ReturnedBoth(this, _next, lockKeys(inner))

CallRedact(K) ==
    \E key \in K : Returned(redact(this, <<key>>), _next)

\* the calls that change keys, values and next
Structural(U) ==
    \/ CallSet(U)
    \/ CallDelete(U)
    \/ CallClear
    \/ CallSetNext(U)
    \/ CallPop
    \/ CallShift
    \/ CallReverse
    \/ CallPush(U)
    \/ CallUnshift(U)
    \/ CallFromEntries(U)
    \/ CallFromPairs(U)
    \/ CallFromPairsJSON(U)

Locking(U) ==
    \/ CallLock(U)
    \/ CallLockAll
    \/ CallLockKeys
    \/ CallFreeze
    \/ CallRedact({jsTrue})

\* arguments of push and unshift
Items ==
    { Scalar("x"),
      Array(<< <<"1", "y">> >>, 2),
      PlainObject(<< <<"a", "y">> >>),
      PlainObject(<< <<"0", "x">>, <<"b", "y">> >>),
      Nanos(<< <<"b", "x">>, <<"0", "y">> >>, 2) }

\* containers without locks: two named keys, indices below MaxNext
U1 == Universe({"a", "b"} \cup IndexKeys(MaxNext), Values, MaxNext, Items, {"a", "1"}, MaxItems)

Next == Structural(U1)

Spec == Init /\ [][Next]_vars

\* every call, locks included, on a smaller universe
ItemsL ==
    { Scalar("x"),
      PlainObject(<< <<"a", "y">> >>),
      PlainObject(<< <<"0", "x">>, <<"a", "y">> >>) }

UL == Universe({"a"} \cup IndexKeys(MaxNextL), Values, MaxNextL, ItemsL, {"a", "0"}, MaxItems)

NextLock == Structural(UL) \/ Locking(UL)

SpecLock == Init /\ [][NextLock]_vars

\* placement alone: set and delete on three named keys and indices below
\* MaxNextP, one value
UP == Universe({"a", "b", "c"} \cup IndexKeys(MaxNextP), {"x"}, MaxNextP, {}, {}, MaxItems)

NextPlace == CallSet(UP) \/ CallDelete(UP)

SpecPlace == Init /\ [][NextPlace]_vars

\* a small container without locks (negative indices, prepending): the
\* structural calls, with the named keys 'a' and 'undefined'
UW == Universe({"a", "undefined"} \cup IndexKeys(MaxNextL), Values, MaxNextL, {Scalar("x")}, {"undefined"}, MaxItems)

NextWrap == Structural(UW)

SpecWrap == Init /\ [][NextWrap]_vars

\* two containers, the second possibly a value of the first: the structural
\* calls, lock, lockKeys and freeze of the first, set and lockKeys of the
\* second
ItemsF == { Scalar("x"), Array(<< <<"0", innerRef>> >>, 1) }

UF == Universe({"a"} \cup IndexKeys(MaxNextF), {"x", innerRef}, MaxNextF, ItemsF, {"a"}, MaxItems)

NextFreeze ==
    \/ Structural(UF)
    \/ CallLock(UF)
    \/ CallLockKeys
    \/ CallFreeze
    \/ CallInnerSet
    \/ CallInnerLockKeys

SpecFreeze == Init /\ [][NextFreeze]_vars

\* arrays with holes: Object.entries of an array of length L with at most
\* two elements, 'x' and then 'y', at any two of its positions
SparseEntries(L) ==
    {<<>>} \cup {<< <<String(i), "x">> >> : i \in 0..(L - 1)}
           \cup {<< <<String(ij[1]), "x">>, <<String(ij[2]), "y">> >> : ij \in {p \in (0..(L - 1)) \X (0..(L - 1)) : p[1] < p[2]}}

SparseArrays == UNION {{Array(es, L) : es \in SparseEntries(L)} : L \in 0..MaxLength}

\* push(array) with one array argument, as long as next stays within MaxNextS
CallPushArray(A) == \E a \in {b \in A : _next + b.next <= MaxNextS} : Returned(push(this, <<a>>), MaxNextS)

\* sparse containers: push of arrays with holes, and pop
NextSparse == CallPushArray(SparseArrays) \/ CallPop

SpecSparse == Init /\ [][NextSparse]_vars

\* a nested container with a hole in front: [(1=b)]
SparseInner == set(NewNANOS, "1", Str("b"), FALSE)

\* the values of the containers written as SLID: two strings, a nested
\* container
ValuesT == {Str("a"), Str("b"), Nested(SparseInner)}

\* containers written as SLID and parsed back: set, delete and next = nn
\* with the named key 'id' and the indices below MaxNextT
UT == Universe({"id"} \cup IndexKeys(MaxNextT), ValuesT, MaxNextT, {Scalar(Str("a"))}, {"id"}, MaxItems)

NextSLID == CallSet(UT) \/ CallDelete(UT) \/ CallSetNext(UT)

SpecSLID == Init /\ [][NextSLID]_vars

\* the items of a SLID list, each as its tokens: values without a key, a
\* nested list, @e, and items with a key
KeylessItems == {<<"a">>, <<"[", "b", "@e", "]">>}

ParsedItems == KeylessItems \cup {<<"@e">>, <<"5", "=", "@e">>, <<"2", "=", "b">>, <<"id", "=", "a">>}

\* one round of the loop of parseItems on the list being built
ParseItem(T) ==
    \E tokens \in T : ~parseItems(tokens, this).error /\ Returned(parseItems(tokens, this).value, MaxNextQ)

\* the list parseSLID builds, item by item
NextParse == ParseItem(ParsedItems)

SpecParse == Init /\ [][NextParse]_vars

\* containers with redaction: set, delete and redact with the named keys
\* 'a' and 'constructor'
UR == Universe({"a", "constructor"} \cup IndexKeys(MaxNextL), {Str("a"), Nested(SparseInner)}, MaxNextL, {Scalar(Str("a"))}, {"a"}, MaxItems)

\* the calls of a container with a reactive adapter attached; an argument of
\* push and unshift is a scalar, an array of one hole, or an array of a hole
\* and a value
ItemsA == {Scalar("x"), Array(<<>>, 1), Array(<< <<"1", "x">> >>, 2)}

UA == Universe({"a"} \cup IndexKeys(MaxNextA), {"x"}, MaxNextA, ItemsA, {"a", "0"}, MaxItems)

NextReactive ==
    \/ CallSet(UA)
    \/ CallDelete(UA)
    \/ CallSetNext(UA)
    \/ CallPop
    \/ CallShift
    \/ CallPush(UA)
    \/ CallUnshift(UA)
    \/ CallLock(UA)
    \/ CallRedact({"a", jsTrue})

SpecReactive == Init /\ [][NextReactive]_vars

\* containers with a key that is written as a quoted string
UC == Universe({"id", "o'k"} \cup IndexKeys(MaxNextC), {Str("a"), Str("o'k"), Nested(SparseInner)}, MaxNextC, {}, {}, MaxItems)

NextCompact == CallSet(UC) \/ CallDelete(UC)

SpecCompact == Init /\ [][NextCompact]_vars

\* the calls of the serialization example, in any order
ValuesE == {Num(1), Str("two"), Num(3), Str("ok")}

UE == Universe({"id", "status"} \cup IndexKeys(MaxNextE), {Num(3), Str("ok")}, MaxNextE, {Scalar(Num(1)), Scalar(Str("two"))}, {"id"}, MaxItemsE)

NextExample == CallPush(UE) \/ CallSet(UE) \/ CallDelete(UE)

SpecExample == Init /\ [][NextExample]_vars

NextRedact == CallSet(UR) \/ CallDelete(UR) \/ CallRedact({"a", "0", jsTrue})

SpecRedact == Init /\ [][NextRedact]_vars

(***************************************************************************)
(* Properties                                                              *)
(***************************************************************************)
Positions(keys) == 1..Len(keys)

\* the position of key k in keys (0 if it is not there)
IndexOf(keys, k) == IF \E i \in Positions(keys) : keys[i] = k THEN CHOOSE i \in Positions(keys) : keys[i] = k ELSE 0

Without(keys, k) == SelectSeq(keys, LAMBDA x : x # k)

Max(S) == CHOOSE x \in S : \A y \in S : y <= x

Min(S) == CHOOSE x \in S : \A y \in S : x <= y

\* C1: under Spec (set in both modes, push, unshift, fromEntries, fromPairs,
\* delete, pop, shift, reverse, assignment to next), the index keys of the
\* key sequence, read in key-sequence order, are strictly ascending.
C1_IndexKeysAscending ==
    \A i, j \in Positions(_keys) :
        (i < j /\ isIndex(_keys[i]) /\ isIndex(_keys[j])) => parseInt(_keys[i]) < parseInt(_keys[j])

\* two index keys with a gap between them, a named key in between
C1_Witness ==
    \E i, j, k \in Positions(_keys) :
        /\ i < j /\ j < k
        /\ isIndex(_keys[i]) /\ ~isIndex(_keys[j]) /\ isIndex(_keys[k])
        /\ parseInt(_keys[k]) > parseInt(_keys[i]) + 1

\* the positions of the index keys greater (smaller) than ind
Greater(keys, ind) == {i \in Positions(keys) : isIndex(keys[i]) /\ parseInt(keys[i]) > ind}

Smaller(keys, ind) == {i \in Positions(keys) : isIndex(keys[i]) /\ parseInt(keys[i]) < ind}

\* where the placement rule puts the new key k
PlaceOf(keys, k, insert) ==
    IF ~isIndex(k) THEN (IF insert THEN 1 ELSE Len(keys) + 1)
    ELSE IF insert THEN (IF Smaller(keys, parseInt(k)) = {} THEN 1 ELSE Max(Smaller(keys, parseInt(k))) + 1)
    ELSE (IF Greater(keys, parseInt(k)) = {} THEN Len(keys) + 1 ELSE Min(Greater(keys, parseInt(k))))

\* keys r is keys with k added at the place the rule gives
PlacedIn(r, keys, k, insert) ==
    /\ Without(r, k) = keys
    /\ IndexOf(r, k) = PlaceOf(keys, k, insert)

\* C2: set(k, v) for a key k not yet present leaves the relative order of
\* the other keys unchanged and puts k: named, at the end (append) or at the
\* start (insert); index, immediately before the first greater index key or
\* at the end (append), immediately after the last smaller index key or at
\* the start (insert).
C2_NewKeyPlacement ==
    \A k \in UP.keys, insert \in BOOLEAN :
        ~has(this, k) => PlacedIn(set(this, k, "x", insert).keys, _keys, k, insert)

\* the example: with keys a 1 b 3 c, index 2 lands between b and 3 in
\* append mode and between 1 and b in insert mode
C2_Witness ==
    /\ _keys = <<"a", "1", "b", "3", "c">>
    /\ set(this, "2", "x", FALSE).keys = <<"a", "1", "b", "2", "3", "c">>
    /\ set(this, "2", "x", TRUE).keys = <<"a", "1", "2", "b", "3", "c">>

\* container r is this with only the value of k replaced by v
OnlyValue(r, k, v) ==
    /\ ~r.thrown
    /\ r.keys = _keys
    /\ r.next = _next
    /\ r.storage = [_storage EXCEPT ![k].value = v]

\* C3: set(k, v) on a key k already present, called directly (append or
\* insert mode), through push or through unshift, replaces only the value
\* at k: the key sequence and next are as before the call.
C3_ExistingKeyOnlyValue ==
    \A k \in U1.keys, v \in Values :
        has(this, k) =>
            /\ \A insert \in BOOLEAN : OnlyValue(set(this, k, v, insert), k, v)
            /\ ~isIndex(k) => OnlyValue(push(this, <<PlainObject(<< <<k, v>> >>)>>), k, v)
            /\ ~isIndex(k) => OnlyValue(unshift(this, <<PlainObject(<< <<k, v>> >>)>>), k, v)

\* a named key strictly inside the key sequence gets a new value by set, by
\* push and by unshift
C3_Witness ==
    \E i \in Positions(_keys) :
        /\ 1 < i /\ i < Len(_keys)
        /\ ~isIndex(_keys[i])
        /\ _storage[_keys[i]].value = "x"
        /\ set(this, _keys[i], "y", TRUE).storage[_keys[i]].value = "y"
        /\ push(this, <<PlainObject(<< <<_keys[i], "y">> >>)>>).storage[_keys[i]].value = "y"
        /\ unshift(this, <<PlainObject(<< <<_keys[i], "y">> >>)>>).storage[_keys[i]].value = "y"

\* C4: next is a non-negative integer, every index key of the key sequence
\* is less than next, and a set of a new index key v >= next makes next
\* equal to v + 1.
C4_NextAboveIndexKeys ==
    /\ _next \in Nat
    /\ \A i \in Positions(_keys) : isIndex(_keys[i]) => parseInt(_keys[i]) < _next
    /\ \A k \in U1.keys, v \in Values, insert \in BOOLEAN :
           (isIndex(k) /\ ~has(this, k) /\ parseInt(k) >= _next) =>
               /\ ~set(this, k, v, insert).thrown
               /\ set(this, k, v, insert).next = parseInt(k) + 1

\* an index key is there, below next, and a set beyond next leaves a gap
C4_Witness ==
    /\ \E i \in Positions(_keys) : isIndex(_keys[i])
    /\ \E k \in U1.keys : isIndex(k) /\ parseInt(k) > _next /\ set(this, k, "x", FALSE).next = parseInt(k) + 1

\* what has() answers for the keys of the universe
HasKeys(s) == {k \in UL.keys : has(s, k)}

\* the stored value of each own property of the storage
StoredValues(s) == [k \in DOMAIN s.storage |-> s.storage[k].value]

\* every mutating call on s throws
MutatorsThrow(s) ==
    /\ \A key \in UL.keys \cup {undefined, "-1"}, value \in Values, insert \in BOOLEAN : set(s, key, value, insert).thrown
    /\ \A key \in UL.keys : delete(s, key).thrown
    /\ clear(s).thrown
    /\ pop(s).thrown
    /\ shift(s).thrown
    /\ reverse(s).thrown
    /\ \A values \in UL.itemLists : push(s, values).thrown /\ unshift(s, values).thrown
    /\ \A es \in UL.entryLists, insert \in BOOLEAN : fromEntries(s, es, insert).thrown
    /\ \A pairs \in UL.pairLists : fromPairs(s, pairs).thrown
    /\ \A nn \in (0 - 1)..UL.maxNext : setNext(s, nn).thrown

\* C5: once the key set is locked (lockKeys() has returned), set (new or
\* existing key), delete, clear, pop, push, shift, unshift, reverse,
\* fromEntries, fromPairs and assignment to next throw, and no later call
\* (lock and redact included) changes what keys(), has() and size show,
\* the order of the keys, or next.
C5_KeySetLockKeepsKeys ==
    /\ [](isLocked(this) => MutatorsThrow(this))
    /\ [][isLocked(this) =>
            /\ _keys' = _keys
            /\ Len(_keys)' = Len(_keys)
            /\ HasKeys(this)' = HasKeys(this)
            /\ _next' = _next]_vars

\* C6: once the key set is locked, set(k, v) on an existing key k whose
\* value is not locked succeeds and stores v.
C6_LockedKeysValueWritable ==
    \A k \in UL.keys, v \in Values :
        (isLocked(this) /\ k \in DOMAIN _storage /\ _storage[k].writable) =>
            /\ ~set(this, k, v, FALSE).thrown
            /\ at(set(this, k, v, FALSE), k) = v

\* key k is in the key sequence and its value is locked
ValueLocked(s, k) == IndexOf(s.keys, k) > 0 /\ has(s, k) /\ ~s.storage[k].writable

\* key k is in the key sequence and its value is not locked
Unlocked(s, k) == IndexOf(s.keys, k) > 0 /\ has(s, k) /\ s.storage[k].writable

\* the call left keys, stored values and next as they are in this
Untouched(r) == r.keys = _keys /\ r.next = _next /\ StoredValues(r) = StoredValues(this)

\* C7: with the value of an existing key k locked and the key set not
\* locked: set(k, v) throws and leaves the value at k (and all else) as it
\* is; set on any other existing key whose value is not locked succeeds; a
\* key that is not there (and was not locked while absent) can be added with
\* set; another key whose value is not locked can be deleted.
C7_ValueLockOnlyThatKey ==
    \A k \in UL.keys : (ValueLocked(this, k) /\ ~isLocked(this)) =>
        /\ \A v \in Values, insert \in BOOLEAN :
               set(this, k, v, insert).thrown /\ Untouched(set(this, k, v, insert))
        /\ \A k2 \in UL.keys \ {k}, v \in Values, insert \in BOOLEAN :
               /\ Unlocked(this, k2) =>
                      ~set(this, k2, v, insert).thrown /\ at(set(this, k2, v, insert), k2) = v
               /\ ~has(this, k2) =>
                      /\ ~set(this, k2, v, insert).thrown
                      /\ at(set(this, k2, v, insert), k2) = v
                      /\ IndexOf(set(this, k2, v, insert).keys, k2) > 0
               /\ Unlocked(this, k2) =>
                      /\ ~delete(this, k2).thrown
                      /\ ~has(delete(this, k2), k2)
                      /\ IndexOf(delete(this, k2).keys, k2) = 0

\* a locked key holding x refuses y, while another key takes y, a new key
\* can be added and the other key can be deleted
C7_Witness ==
    \E k, k2, k3 \in UL.keys :
        /\ ~isLocked(this)
        /\ ValueLocked(this, k) /\ at(this, k) = "x"
        /\ set(this, k, "y", FALSE).thrown
        /\ Unlocked(this, k2) /\ at(this, k2) = "x"
        /\ at(set(this, k2, "y", FALSE), k2) = "y"
        /\ ~has(delete(this, k2), k2)
        /\ ~has(this, k3) /\ has(set(this, k3, "y", FALSE), k3)

\* C8: a key of the key sequence whose value is locked is there, with the
\* same value, after every call.
C8_ValueLockIrreversible ==
    [][\A k \in UL.keys : ValueLocked(this, k) =>
            /\ has(this, k)'
            /\ IndexOf(_keys, k)' > 0
            /\ at(this, k)' = at(this, k)]_vars

\* C9: once isLocked() answers true it answers true after every call.
C9_KeySetLockIrreversible == [][isLocked(this) => isLocked(this)']_vars

\* the key set is locked, not by freeze, and a later call was refused
C9_Witness == isLocked(this) /\ ~frozen /\ thrown /\ Len(_keys) > 0

\* C10: a call that throws leaves the key sequence, the stored values and
\* next as they were before the call.
C10_ThrowLeavesUnchanged ==
    [][thrown' => (_keys' = _keys /\ _next' = _next /\ StoredValues(this)' = StoredValues(this))]_vars

\* the value of some index key of the key sequence is locked
IndexValueLocked(s) == \E k \in DOMAIN s.storage : isIndex(k) /\ ValueLocked(s, k)

\* pop, shift, unshift and insert-mode fromEntries throw and leave keys,
\* values and next as they are
IndexCallsRefused(s) ==
    /\ pop(s).thrown /\ Untouched(pop(s))
    /\ shift(s).thrown /\ Untouched(shift(s))
    /\ \A values \in UL.itemLists : unshift(s, values).thrown /\ Untouched(unshift(s, values))
    /\ \A es \in UL.entryLists : fromEntries(s, es, TRUE).thrown /\ Untouched(fromEntries(s, es, TRUE))

\* C11: once the value of an index key is locked (lock, lockAll, or the
\* sticky lock on a newly added index) the index lock is on; it stays on
\* until the container is cleared; while it is on, pop, shift, unshift and
\* insert-mode fromEntries throw before changing keys, values or next.
C11_IndexLockRefuses ==
    /\ [](IndexValueLocked(this) => _lockInd)
    /\ [][_lockInd => (_lockInd' \/ (_keys' = <<>> /\ _next' = 0 /\ DOMAIN _storage' = {}))]_vars
    /\ [](_lockInd => IndexCallsRefused(this))

\* an index value is locked, the key set is not, there is something to pop
\* and to shift, and the last call was refused
C11_Witness ==
    /\ IndexValueLocked(this) /\ ~isLocked(this)
    /\ has(this, "0") /\ has(this, String(_next - 1)) /\ _next > 1
    /\ thrown
    /\ pop(this).thrown /\ shift(this).thrown

\* a set on the second container succeeds and stores the value
InnerMutable ==
    \A v \in Values : ~set(inner, "a", v, FALSE).thrown /\ at(set(inner, "a", v, FALSE), "a") = v

\* C12: on a frozen container set, delete, clear, pop, push, shift,
\* unshift, reverse, fromEntries, fromPairs and assignment to next throw, and
\* no call changes its key sequence, its stored values or its next; the call
\* that freezes it leaves a container stored in it as it is, and that
\* container (not locked itself) still takes a set.
C12_FreezeIsShallow ==
    /\ [](frozen => MutatorsThrow(this))
    /\ [][frozen => (_keys' = _keys /\ _next' = _next /\ StoredValues(this)' = StoredValues(this))]_vars
    /\ [][(~frozen /\ frozen') => inner' = inner]_vars
    /\ []((frozen /\ holdsInner(this) /\ ~isLocked(inner)) => InnerMutable)

\* a frozen container that holds the second container, a call refused
\* after the freeze, and the second container changed by a set
C12_Witness ==
    /\ frozen /\ thrown /\ holdsInner(this)
    /\ ~isLocked(inner) /\ at(inner, "a") = "x"
    /\ at(set(inner, "a", "y", FALSE), "a") = "y"

\* the negative indices -1 .. -(MaxNextL + 2)
NegKeys == {String(0 - n) : n \in 1..(MaxNextL + 2)}

\* C13: at(key) and has(key) with a negative index -n look up index
\* next - n; when next - n is below 0 the lookup is a miss (at gives the
\* default, has gives false) whatever the container holds.  (at and has have
\* no throw on this path.)
C13_NegativeIndexLookup ==
    \A key \in NegKeys :
        IF parseInt(key) + _next >= 0
        THEN /\ has(this, key) = has(this, String(parseInt(key) + _next))
             /\ at(this, key) = at(this, String(parseInt(key) + _next))
        ELSE ~has(this, key) /\ at(this, key) = undefined

\* the index keys of the key sequence, as numbers
Indices(s) == {parseInt(s.keys[i]) : i \in {j \in Positions(s.keys) : isIndex(s.keys[j])}}

\* container r is s without key k: the other keys in their order, with
\* their values
Removed(r, s, k) ==
    /\ ~r.thrown
    /\ r.keys = Without(s.keys, k)
    /\ ~hasOwn(r.storage, k)
    /\ \A k2 \in DOMAIN r.storage : r.storage[k2] = s.storage[k2]

Shifted(k, d) == IF isIndex(k) THEN String(parseInt(k) + d) ELSE k

\* container r holds exactly the key sequence ks of container s, every index
\* key moved by d in place, each key with the value it had in s
Renamed(r, s, ks, d) ==
    /\ ~r.thrown
    /\ r.keys = [i \in 1..Len(ks) |-> Shifted(ks[i], d)]
    /\ DOMAIN r.storage = {r.keys[i] : i \in Positions(r.keys)}
    /\ \A i \in Positions(ks) : r.storage[r.keys[i]].value = s.storage[ks[i]].value

\* C15: shift() on an unlocked container with next > 0 removes index key 0
\* if present, rewrites every other index key i to i - 1 with its value and
\* its position in the key sequence, leaves the named keys and their values
\* untouched, and decreases next by exactly 1.
C15_ShiftRenumbers ==
    _next > 0 => /\ Renamed(shift(this), this, Without(_keys, "0"), 0 - 1)
                 /\ shift(this).next = _next - 1

\* index key 0, a higher index key and a named key are present, and shift
\* moves the higher key down past the named key's position
C15_Witness ==
    /\ has(this, "0") /\ has(this, "a")
    /\ \E i \in 1..(_next - 1) : has(this, String(i)) /\ has(shift(this), String(i - 1))
    /\ ~has(shift(this), String(_next - 1))
    /\ shift(this).next = _next - 1
    /\ at(shift(this), "a") = at(this, "a")

\* the positions of an array that are not holes
Filled(a) == {parseInt(a.entries[i][1]) : i \in DOMAIN a.entries}

\* the set of keys of a key sequence
KeySet(ks) == {ks[i] : i \in Positions(ks)}

\* container r is container s with array a put at s.next: the elements at
\* their offsets, no key at the offset of a hole, next raised by the length
PushedAt(r, s, a) ==
    /\ ~r.thrown
    /\ r.next = s.next + a.next
    /\ \A i \in DOMAIN a.entries : r.storage[String(s.next + parseInt(a.entries[i][1]))].value = a.entries[i][2]
    /\ KeySet(r.keys) = KeySet(s.keys) \cup {String(s.next + i) : i \in Filled(a)}
    /\ DOMAIN r.storage = KeySet(r.keys)

\* [ , 'x', , 'y', , ]
HolesXY == Array(<< <<"1", "x">>, <<"3", "y">> >>, 5)

\* C16: push of an array of length L with holes onto a container whose next
\* is b stores each non-hole element i at index b + i, creates no key for a
\* hole and leaves next at b + L; pushing [,'x',,'y',,] twice onto an empty
\* container yields the index keys 1,3,6,8 with the values x,y,x,y and
\* next = 10.
C16_PushKeepsHoles ==
    /\ \A a \in SparseArrays : PushedAt(push(this, <<a>>), this, a)
    /\ LET r == push(push(NewNANOS, <<HolesXY>>), <<HolesXY>>)
       IN  /\ r.keys = <<"1", "3", "6", "8">>
           /\ <<at(r, "1"), at(r, "3"), at(r, "6"), at(r, "8")>> = <<"x", "y", "x", "y">>
           /\ r.next = 10

\* the container after [,'x',,'y',,] was pushed twice onto an empty one
C16_Witness ==
    /\ _keys = <<"1", "3", "6", "8">>
    /\ <<at(this, "1"), at(this, "3"), at(this, "6"), at(this, "8")>> = <<"x", "y", "x", "y">>
    /\ _next = 10

\* container r is container s with array a put in front: the elements of a
\* at their own indices ahead of every key of s, the index keys of s moved
\* up by the length of a in place, next raised by the length of a
UnshiftedBy(r, s, a) ==
    /\ ~r.thrown
    /\ r.next = s.next + a.next
    /\ r.keys = [i \in 1..Len(a.entries) |-> a.entries[i][1]] \o [i \in 1..Len(s.keys) |-> Shifted(s.keys[i], a.next)]
    /\ DOMAIN r.storage = KeySet(r.keys)
    /\ \A i \in DOMAIN a.entries : r.storage[a.entries[i][1]].value = a.entries[i][2]
    /\ \A i \in Positions(s.keys) : r.storage[Shifted(s.keys[i], a.next)].value = s.storage[s.keys[i]].value

\* C17: unshift of an array of length L with holes on a container without
\* key-set or index lock makes every index key i the key i + L with the
\* same value, stores each non-hole element i at index i, puts all the new
\* keys before all the earlier keys in the key sequence and raises next by
\* exactly L.
C17_UnshiftArray ==
    \A a \in SparseArrays : UnshiftedBy(unshift(this, <<a>>), this, a)

\* a container that starts with a named key and has an index key, on which
\* unshift of [,'x',,'y',,] puts the keys 1 and 3 first and moves the index
\* key up by 5
C17_Witness ==
    /\ Len(_keys) > 1 /\ ~isIndex(_keys[1])
    /\ \E i \in 0..(_next - 1) : has(this, String(i)) /\ at(unshift(this, <<HolesXY>>), String(i + 5)) = at(this, String(i))
    /\ SubSeq(unshift(this, <<HolesXY>>).keys, 1, 3) = <<"1", "3", _keys[1]>>
    /\ unshift(this, <<HolesXY>>).next = _next + 5

\* plain objects with the named key 'a': alone, after an index entry, before
\* another named entry
ObjectsA(v) ==
    { PlainObject(<< <<"a", v>> >>),
      PlainObject(<< <<"0", "x">>, <<"a", v>> >>),
      PlainObject(<< <<"a", v>>, <<"b", "x">> >>) }

\* how often key k occurs in keys
Count(ks, k) == Cardinality({i \in Positions(ks) : ks[i] = k})

\* r is what push(o1, o2) made of this, r1 what push(o1) alone would make:
\* 'a' has the value v2 of the right-most argument, once, where o1 put it or
\* where it already was
PushedTwice(r, r1, v2) ==
    /\ ~r.thrown
    /\ at(r, "a") = v2
    /\ Count(r.keys, "a") = 1
    /\ IndexOf(r.keys, "a") = IndexOf(r1.keys, "a")

\* r is what unshift(o1, o2) made of this, r1 what unshift(o2) alone would
\* make: 'a' has the value v1 of the left-most argument, once, where o2 put it
\* or where it already was (counted from the end: later keys go in front)
UnshiftedTwice(r, r1, v1) ==
    /\ ~r.thrown
    /\ at(r, "a") = v1
    /\ Count(r.keys, "a") = 1
    /\ Len(r.keys) - IndexOf(r.keys, "a") = Len(r1.keys) - IndexOf(r1.keys, "a")

\* C18: when the same named key occurs in several arguments of one call,
\* push keeps the value of the right-most argument and unshift that of the
\* left-most one; the key appears once, at the position where the call first
\* placed it or where it already was.
C18_DuplicateNamedKey ==
    \A v1, v2 \in Values : \A o1 \in ObjectsA(v1), o2 \in ObjectsA(v2) :
        /\ PushedTwice(push(this, <<o1, o2>>), push(this, <<o1>>), v2)
        /\ UnshiftedTwice(unshift(this, <<o1, o2>>), unshift(this, <<o2>>), v1)

\* a container with an index key and a named key but without 'a': push of
\* {a: x}, {a: y} leaves a = y at the end, unshift leaves a = x at the front
C18_Witness ==
    /\ ~has(this, "a") /\ has(this, "0") /\ \E i \in Positions(_keys) : ~isIndex(_keys[i])
    /\ at(push(this, <<PlainObject(<< <<"a", "x">> >>), PlainObject(<< <<"a", "y">> >>)>>), "a") = "y"
    /\ push(this, <<PlainObject(<< <<"a", "x">> >>), PlainObject(<< <<"a", "y">> >>)>>).keys = _keys \o <<"a">>
    /\ at(unshift(this, <<PlainObject(<< <<"a", "x">> >>), PlainObject(<< <<"a", "y">> >>)>>), "a") = "x"
    /\ unshift(this, <<PlainObject(<< <<"a", "x">> >>), PlainObject(<< <<"a", "y">> >>)>>).keys = <<"a">> \o _keys

\* the observable state of a container: key sequence, value of each key,
\* next
Observed(s) == <<s.keys, [i \in Positions(s.keys) |-> at(s, s.keys[i])], s.next>>

\* unshift(o2) and then, unless that call threw, unshift(o1)
UnshiftEach(s, o1, o2) ==
    IF unshift(s, <<o2>>).thrown THEN unshift(s, <<o2>>) ELSE unshift(unshift(s, <<o2>>), <<o1>>)

\* C19: for any items and any starting container state, one call
\* unshift(o1, ..., on) leaves the container in the same state (key
\* sequence, values, next) as the separate calls unshift(on), ...,
\* unshift(o1) made in that order.
C19_UnshiftOneCallOrMany ==
    \A o1, o2 \in ItemsL : Observed(unshift(this, <<o1, o2>>)) = Observed(UnshiftEach(this, o1, o2))

\* key k of a container whose next is n, after reverse: index i is
\* (n - 1) - i, a named key is itself
Mirrored(k, n) == IF isIndex(k) THEN String((n - 1) - parseInt(k)) ELSE k

\* container r is container s reversed
Reversed(r, s) ==
    /\ ~r.thrown
    /\ r.next = s.next
    /\ r.keys = [i \in 1..Len(s.keys) |-> Mirrored(s.keys[Len(s.keys) + 1 - i], s.next)]
    /\ \A i \in Positions(s.keys) : at(r, Mirrored(s.keys[i], s.next)) = at(s, s.keys[i])

\* C20: reverse() on a container without key-set lock replaces the key
\* sequence by its reversal in which every index key i is (next - 1) - i;
\* every value stays with its key, named keys keep their names and values,
\* and next is unchanged.
C20_ReverseMirrors ==
    ~_locked => Reversed(reverse(this), this)

\* a sparse container with a named key between index keys: index 0 is there,
\* index next - 1 is not, and reverse moves the value of 0 to next - 1
C20_Witness ==
    /\ Len(_keys) > 2 /\ has(this, "0") /\ ~has(this, String(_next - 1))
    /\ \E i \in 2..(Len(_keys) - 1) : ~isIndex(_keys[i]) /\ isIndex(_keys[i - 1]) /\ isIndex(_keys[i + 1])
    /\ at(reverse(this), String(_next - 1)) = at(this, "0")
    /\ reverse(this).keys[Len(_keys)] = String(_next - 1)
    /\ reverse(this).next = _next

Below(ks, nn) == SelectSeq(ks, LAMBDA k : ~(isIndex(k) /\ parseInt(k) >= nn))

\* container r is container s with next = nn and without the index keys
\* that are nn or higher, every other entry as it was
Truncated(r, s, nn) ==
    /\ ~r.thrown
    /\ r.next = nn
    /\ r.keys = Below(s.keys, nn)
    /\ DOMAIN r.storage = KeySet(r.keys)
    /\ \A k \in DOMAIN r.storage : r.storage[k] = s.storage[k]

\* C22: assigning a non-negative integer nn to next on a container without
\* locks makes next equal to nn; a lower nn removes exactly the index keys
\* >= nn and every other entry keeps its value and position; a higher nn adds
\* and removes no key; assigning a negative or non-integer value changes
\* nothing.
C22_AssignNext ==
    /\ \A nn \in 0..(MaxNext + 1) :
         /\ Truncated(setNextNumber(this, Integer(nn)), this, nn)
         /\ nn >= _next => setNextNumber(this, Integer(nn)).keys = _keys
    /\ \A n \in (0 - 2)..(0 - 1) : setNextNumber(this, Integer(n)) = this
    /\ \A n \in (0 - 2)..MaxNext : setNextNumber(this, Fraction(n)) = this

\* index keys on both sides of 1 and a named key: next = 1 removes the
\* index keys from 1 on and nothing else, next = 1/2 removes nothing
C22_Witness ==
    /\ has(this, "0") /\ has(this, "1") /\ has(this, "2") /\ has(this, "a")
    /\ setNextNumber(this, Integer(1)).keys = Without(Without(_keys, "1"), "2")
    /\ setNextNumber(this, Integer(1)).next = 1
    /\ setNextNumber(this, Fraction(0)) = this

\* toJSON() at every level: next and the ordered key/value pairs
RECURSIVE Snapshot(_)
Snapshot(c) ==
    [next |-> c.next,
     pairs |-> [i \in 1..Len(c.keys) |->
                  <<c.keys[i],
                    IF c.storage[c.keys[i]].value.type = "nanos"
                    THEN Nested(Snapshot(c.storage[c.keys[i]].value.nanos[1]))
                    ELSE c.storage[c.keys[i]].value>>]]

\* C23: SLID round trip: for every container c holding scalars and nested
\* containers, sparse ones and ones whose next exceeds the highest index
\* key + 1 included, parseSLID(c.toSLID()) has the same next and the same
\* ordered key/value pairs as c at every nesting level.
C23_SLIDRoundTrip ==
    /\ ~parseSLID(toSLID(this, FALSE)).error
    /\ Snapshot(parseSLID(toSLID(this, FALSE)).value) = Snapshot(this)

\* the slots between the highest index key and next
TrailingHoles(s) == s.next - (IF Indices(s) = {} THEN 0 ELSE Max(Indices(s)) + 1)

\* how often lexeme l occurs in a text
Occurrences(text, l) == Cardinality({i \in 1..Len(text) : text[i] = l})

\* new NANOS('a', 'b') followed by next = 4
TwoAndHoles == setNextNumber(push(NewNANOS, <<Scalar(Str("a")), Scalar(Str("b"))>>), Integer(4))

\* C24: toSLID encodes trailing holes: when next is greater than the
\* highest stored index key + 1 (or there are no index keys and next > 0)
\* the output has one @e token for each missing trailing slot; new
\* NANOS('a','b') followed by next = 4 serializes to [(a b @e @e)].
C24_TrailingHolesWritten ==
    /\ Occurrences(toSLID(this, FALSE), "@e") = TrailingHoles(this)
    /\ Join(toSLID(TwoAndHoles, FALSE)) = "[(a b @e @e)]"

\* container r is the list s with value v added at index s.next, at the end
\* of the key sequence
AddedAtNext(r, s, v) ==
    /\ ~r.thrown
    /\ r.keys = Append(s.keys, String(s.next))
    /\ r.next = s.next + 1
    /\ r.storage[String(s.next)].value = v
    /\ \A k \in DOMAIN s.storage : r.storage[k] = s.storage[k]

\* C25: when a SLID list is parsed, a value written without a key is stored
\* at index next of the list being built (0 at first), with append-mode
\* placement; a standalone @e stores nothing and increases next by exactly
\* one.
C25_KeylessAtNext ==
    /\ AddedAtNext(parseItems(<<"a">>, this).value, this, Str("a"))
    /\ AddedAtNext(parseItems(<<"'1'">>, this).value, this, Str("1"))
    /\ AddedAtNext(parseItems(<<"[", "b", "@e", "]">>, this).value, this, Nested(skipSlot(set(NewNANOS, "0", Str("b"), FALSE))))
    /\ parseItems(<<"@e">>, this).value = [this EXCEPT !.next = _next + 1]
    /\ parseSLID(<<"[(", "a", ")]">>).value.keys = <<"0">>

\* a list with a hole left by @e and a named key at the end: the next value
\* goes to index next, after the named key
C25_Witness ==
    /\ _next > 1 /\ ~hasOwn(_storage, String(_next - 1)) /\ hasOwn(_storage, "0")
    /\ Len(_keys) > 1 /\ _keys[Len(_keys)] = "id"
    /\ parseItems(<<"a">>, this).value.keys = Append(_keys, String(_next))
    /\ parseItems(<<"@e">>, this).value.keys = _keys

\* the number of keys
Size(s) == Len(s.keys)

\* C26: when SLID is parsed, an item N=@e with an index N stores no value
\* at N (has(N) is false, size does not grow) and sets next to N + 1;
\* parsing [(a 5=@e)] gives size 1, has(5) false and next 6.
C26_IndexedHole ==
    /\ \A N \in _next..(MaxNextQ - 1) :
         /\ ~has(parseItems(<<String(N), "=", "@e">>, this).value, String(N))
         /\ Size(parseItems(<<String(N), "=", "@e">>, this).value) = Size(this)
         /\ parseItems(<<String(N), "=", "@e">>, this).value.next = N + 1
    /\ Size(parseSLID(<<"[(", "a", " ", "5", "=", "@e", ")]">>).value) = 1
    /\ ~has(parseSLID(<<"[(", "a", " ", "5", "=", "@e", ")]">>).value, "5")
    /\ parseSLID(<<"[(", "a", " ", "5", "=", "@e", ")]">>).value.next = 6

\* the key of an entry was redacted by redact(): its own name for a named
\* key, any index for an index key
Marked(s, k) == (IF isIndex(k) THEN "0" ELSE k) \in s.redacted.flags

\* the items of the entries of s from entry i on that are not marked
RECURSIVE Unmarked(_, _, _)
Unmarked(s, items, i) ==
    IF i > Len(items) THEN <<>>
    ELSE (IF Marked(s, s.keys[i]) THEN <<>> ELSE <<items[i]>>) \o Unmarked(s, items, i + 1)

\* C27: toString() and toSLID({redact: true}) leave out the key=value text
\* of every redacted named key (and the items of redacted indices) and emit
\* every non-redacted entry exactly as without redaction; after redact(true)
\* the whole item list is rendered empty.
C27_RedactedLeftOut ==
    /\ toString(this) = toSLID(this, TRUE)
    /\ IF _redacted.kind = "true"
       THEN Join(toString(this)) = "[()]"
       ELSE itemsLoop(this, 1, 0, <<>>, TRUE) = Unmarked(this, itemsLoop(this, 1, 0, <<>>, FALSE), 1)

\* the README's statements on container s: push (the constructor's
\* arguments), then two set statements, each on the container itself
Statements(s) == set(set(push(s, <<Scalar(Num(1)), Scalar(Str("two"))>>), "id", Num(3), FALSE), "status", Str("ok"), FALSE)

\* the expression new NANOS().push(1,'two').set('id',3).set('status','ok').toString():
\* each call's receiver is the value the call before it returned
Chained(s) == toStringExpr(setExpr(setExpr(pushExpr(Nested(s), <<Scalar(Num(1)), Scalar(Str("two"))>>), "id", Num(3)), "status", Str("ok")))

ExampleText == <<"[(", "1", " ", "two", " ", "id", "=", "3", " ", "status", "=", "ok", ")]">>

\* C28 (as corrected): on a new container, push(1,'two'), set('id',3) and
\* set('status','ok') made as separate statements on the container give a
\* toString() of exactly [(1 two id=3 status=ok)], and parsing that text
\* gives a container with at('status') = 'ok' and at(0) = 1
C28_SeparateStatements ==
    this = NewNANOS =>
        /\ toString(Statements(this)) = ExampleText
        /\ Join(toString(Statements(this))) = "[(1 two id=3 status=ok)]"
        /\ ~parseSLID(ExampleText).error
        /\ at(parseSLID(ExampleText).value, "status") = Str("ok")
        /\ at(parseSLID(ExampleText).value, "0") = Num(1)

\* the container the three statements have built, with its text
C28_Witness ==
    /\ this = Statements(NewNANOS)
    /\ _keys = <<"0", "1", "id", "status">>
    /\ Join(toString(this)) = "[(1 two id=3 status=ok)]"
    /\ parseSLID(toString(this)).value.keys = _keys

\* C28 (as stated): the chained expression, every call on the value the call
\* before it returned, has the value '[(1 two id=3 status=ok)]'
C28_ChainedExpression ==
    this = NewNANOS => Chained(this) = Str("[(1 two id=3 status=ok)]")

\* the keys of the properties of the storage that are locked
LockedKeys(s) == {k \in DOMAIN s.storage : ~s.storage[k].writable}

\* the call that led from s to r returned and has added, removed or
\* renumbered a key, locked, redacted or changed next
Mutated(s, r) ==
    /\ ~r.thrown
    /\ \/ r.keys # s.keys
       \/ r.next # s.next
       \/ LockedKeys(r) # LockedKeys(s)
       \/ r.locked # s.locked \/ r.lockInd # s.lockInd \/ r.lockNew # s.lockNew
       \/ r.redacted # s.redacted

HasChanged(calls) == \E i \in 1..Len(calls) : calls[i].call = "changed"

Notified(s, r, calls) == Mutated(s, r) => HasChanged(calls)

\* the calls of one key or one value
NotifiedByKey ==
    /\ \A key \in UA.keys \cup {undefined}, insert \in BOOLEAN :
            Notified(this, set(this, key, "x", insert), setCalls(this, key, "x", insert, 0))
    /\ \A key \in UA.keys : Notified(this, delete(this, key), deleteCalls(this, key, 0))
    /\ \A key \in UA.keys : Notified(this, lock(this, <<key>>), lockCalls(this, <<key>>, 0))
    /\ \A andNew \in BOOLEAN : Notified(this, lockAll(this, andNew), lockAllCalls(this, andNew, 0))
    /\ Notified(this, lockKeys(this), lockKeysCalls(this, 0))
    /\ Notified(this, clear(this), clearCalls(this, 0))
    /\ Notified(this, reverse(this), reverseCalls(this, 0))
    /\ \A nn \in 0..MaxNextA : Notified(this, setNext(this, nn), setNextCalls(this, nn, 0))

\* the calls of several values
NotifiedByList ==
    /\ \A values \in UA.itemLists : Notified(this, unshift(this, values), unshiftCalls(this, values, 0))
    /\ \A es \in UA.entryLists, insert \in BOOLEAN : Notified(this, fromEntries(this, es, insert), fromEntriesCalls(this, es, insert, 0))
    /\ \A pairs \in UA.pairLists : Notified(this, fromPairs(this, pairs), fromPairsCalls(this, pairs, 0))

\* C29: with an adapter attached, every public call that adds a key, removes
\* a key, renumbers keys, locks, redacts (redact(true) too) or changes next
\* calls changed() at least once before it returns; pop and shift of a
\* sparse container and push of an array of holes are among them
C29_ChangedOnMutation ==
    /\ NotifiedByKey
    /\ NotifiedByList
    /\ \A values \in UA.itemLists : Notified(this, push(this, values), pushCalls(this, values, 0))
    /\ Notified(this, pop(this), popCalls(this, 0))
    /\ Notified(this, shift(this), shiftCalls(this, 0))
    /\ \A key \in {"a", "0", jsTrue} : Notified(this, redact(this, <<key>>), redactCalls(this, <<key>>, 0))

\* the number of changed() calls
Notifications(calls) == Cardinality({i \in 1..Len(calls) : calls[i].call = "changed"})

\* every changed() is made inside a batch() call, and the call itself makes
\* at most one batch() call
InOneBatch(calls) ==
    /\ \A i \in 1..Len(calls) : calls[i].call = "changed" => calls[i].depth >= 1
    /\ Cardinality({i \in 1..Len(calls) : calls[i].call = "batch" /\ calls[i].depth = 0}) <= 1

\* push, unshift, shift, fromEntries and fromPairs
BatchedCalls ==
    /\ \A values \in UA.itemLists : InOneBatch(pushCalls(this, values, 0)) /\ InOneBatch(unshiftCalls(this, values, 0))
    /\ InOneBatch(shiftCalls(this, 0))
    /\ \A es \in UA.entryLists, insert \in BOOLEAN : InOneBatch(fromEntriesCalls(this, es, insert, 0))
    /\ \A pairs \in UA.pairLists : InOneBatch(fromPairsCalls(this, pairs, 0))

\* C30: with an adapter attached, push, unshift, shift, fromEntries, fromPairs
\* and an assignment that lowers next over stored indices, so that it makes
\* more than one changed() call, make all their changed() calls inside a
\* single batch() call: none outside a batch
C30_ManyInOneBatch ==
    /\ BatchedCalls
    /\ \A nn \in 0..MaxNextA :
            (nn < _next /\ Notifications(setNextCalls(this, nn, 0)) > 1) => InOneBatch(setNextCalls(this, nn, 0))

\* the callbacks of a traversal
Callbacks ==
    {Idle, DeletingVisited, Deleting("a"), Deleting("0"), Deleting("1"),
     Setting("a", FALSE), Setting("b", FALSE), Setting("b", TRUE), Setting(undefined, FALSE)}

\* the keys up to and including the first stopAt
RECURSIVE UpTo(_, _, _)
UpTo(ks, i, stopAt) ==
    IF i > Len(ks) THEN ks ELSE IF ks[i] = stopAt THEN SubSeq(ks, 1, i) ELSE UpTo(ks, i + 1, stopAt)

\* the traversals that walk a copy: findLast and filter
SnapshotTraversals ==
    \A f \in Callbacks :
        /\ filter(this, f).visits = _keys
        /\ \A stopAt \in {undefined} \cup {_keys[i] : i \in 1..Len(_keys)} :
                findLast(this, f, stopAt).visits = UpTo(toReversed(_keys), 1, stopAt)

\* C31: forEach, find, findLast and filter invoke the callback exactly once
\* for each key present when the call starts, in key order (reverse order
\* for findLast, up to the key the predicate is true for), and for no other
\* key, also when the callback adds or deletes keys of the container
C31_TraverseSnapshot ==
    /\ SnapshotTraversals
    /\ \A f \in Callbacks :
        /\ forEach(this, f).visits = _keys
        /\ \A stopAt \in {undefined} \cup {_keys[i] : i \in 1..Len(_keys)} :
                find(this, f, stopAt).visits = UpTo(_keys, 1, stopAt)

\* C32: a new container loaded with fromPairs(c.toJSON()) has a toJSON()
\* equal to c.toJSON(): the same next, the same keys in the same order, the
\* same values, also for a sparse c and a c with trailing holes
C32_SnapshotRoundTrip ==
    /\ ~fromJSON(NewNANOS, toJSON(this)).thrown
    /\ toJSON(fromJSON(NewNANOS, toJSON(this))) = toJSON(this)
    /\ fromJSON(NewNANOS, toJSON(this)).keys = _keys
    /\ fromJSON(NewNANOS, toJSON(this)).next = _next

\* a sparse container with a named key between its indices and trailing
\* holes, loaded back as it was
C32_Witness ==
    /\ _keys = <<"a", "1">>
    /\ _next = 3
    /\ toJSON(this).pairs = << <<Str("a"), "x">>, <<Num(1), "y">> >>
    /\ fromJSON(NewNANOS, toJSON(this)).storage = _storage
    /\ fromJSON(NewNANOS, toJSON(this)).next = 3

\* C33: with a basic adapter attached, a set of a key that is present calls
\* changed() zero times; a set of a new key and a delete of a present key
\* each call changed() at least once
C33_ValueChangeSilent ==
    /\ \A key \in UL.keys, value \in UL.values, insert \in BOOLEAN :
        ~set(this, key, value, insert).thrown =>
            IF has(this, key)
            THEN Notifications(setCalls(this, key, value, insert, 0)) = 0
            ELSE Notifications(setCalls(this, key, value, insert, 0)) >= 1
    /\ \A key \in UL.keys :
        (hasOwn(_storage, key) /\ ~delete(this, key).thrown) => Notifications(deleteCalls(this, key, 0)) >= 1

\* the values that may stand under a redacted key
HiddenValues == {Str("b"), Num(1), Undef, Nested(SparseInner)}

\* the value of key k of s is hidden: k was redacted, or redact(true)
Hidden(s, k) == s.redacted.kind = "true" \/ Marked(s, k)

\* s with the value v under every redacted key: the same key sequence, next
\* and redaction flags
Replaced(s, v) ==
    [s EXCEPT !.storage = [k \in DOMAIN s.storage |->
                              IF Hidden(s, k) THEN [s.storage[k] EXCEPT !.value = v] ELSE s.storage[k]]]

\* a container that holds c as the value of a key that is not redacted
Holding(c) == set(set(NewNANOS, "0", Str("a"), FALSE), "id", Nested(c), FALSE)

\* C34: two containers with the same key sequence, next and redaction flags
\* that differ only in the values under redacted keys (a redacted named key,
\* the index keys when an index was redacted, every key after redact(true))
\* have the same toString(), also as values nested in another container
C34_RedactedValuesHidden ==
    \A v \in HiddenValues :
        /\ toString(Replaced(this, v)) = toString(this)
        /\ toString(Holding(Replaced(this, v))) = toString(Holding(this))

\* a redacted named key and an index that is not redacted: the value of the
\* named key can be replaced, the text shows only the index
C34_Witness ==
    /\ _keys = <<"0", "a">>
    /\ _redacted = [kind |-> "object", flags |-> {"a"}]
    /\ Replaced(this, Num(1)) # this
    /\ Join(toString(this)) = "[(a)]"
    /\ Join(toString(Replaced(this, Num(1)))) = "[(a)]"
    /\ Join(toSLID(Replaced(this, Num(1)), FALSE)) = "[(a a=1)]"
    /\ Join(toString(Holding(Replaced(this, Num(1))))) = "[(a id=[a])]"

\* no lock operation has had an effect on s
NeverLocked(s) ==
    /\ ~s.locked /\ ~s.lockInd /\ ~s.lockNew /\ ~s.frozen
    /\ \A k \in DOMAIN s.storage : s.storage[k].writable

\* C35: isLocked(k) is true if the value at k is locked and false otherwise;
\* on a container no lock operation was called on it is false for every
\* key, present or absent
C35_IsLockedOfKey ==
    \A k \in UL.keys \cup {"b"} :
        /\ isLockedKey(this, k) = (hasOwn(_storage, k) /\ ~_storage[k].writable)
        /\ NeverLocked(this) => ~isLockedKey(this, k)

\* every key of the key sequence of s has its value locked
AllLocked(s) == \A i \in 1..Len(s.keys) : hasOwn(s.storage, s.keys[i]) /\ ~s.storage[s.keys[i]].writable

\* a set on key k of r throws and leaves r as it is
Refused(r, k) ==
    \A v \in Values : set(r, k, v, FALSE).thrown /\ [set(r, k, v, FALSE) EXCEPT !.thrown = FALSE] = r

\* the call that led from s to r returned, and every key it added is
\* value-locked: a set on it is refused
AddedLocked(s, r) ==
    r.thrown \/ \A i \in 1..Len(r.keys) :
                    IndexOf(s.keys, r.keys[i]) = 0 => (~r.storage[r.keys[i]].writable /\ Refused(r, r.keys[i]))

\* C36: after lockAll(true) every value present is locked, and from then on
\* (the sticky flag is never taken back) every key added by set or push is
\* value-locked when the adding call returns: a following set on that key
\* throws and leaves its value unchanged
C36_StickyLockAll ==
    /\ [](~lockAll(this, TRUE).thrown => (AllLocked(lockAll(this, TRUE)) /\ lockAll(this, TRUE).lockNew))
    /\ [][_lockNew => _lockNew']_vars
    /\ [](_lockNew =>
            /\ \A key \in UL.keys \cup {undefined}, v \in Values, insert \in BOOLEAN : AddedLocked(this, set(this, key, v, insert))
            /\ \A values \in UL.itemLists : AddedLocked(this, push(this, values)))

\* after lockAll(true) a key was added and locked by the adding call: the
\* key set is open, the value cannot be set
C36_Witness ==
    /\ _lockNew /\ ~_locked /\ ~frozen /\ ~thrown
    /\ _keys = <<"a">> /\ AllLocked(this)
    /\ ~set(this, undefined, "x", FALSE).thrown
    /\ set(this, undefined, "x", FALSE).keys = <<"a", "0">>
    /\ AllLocked(set(this, undefined, "x", FALSE))
    /\ Refused(set(this, undefined, "x", FALSE), "0")
    /\ ~push(this, <<Scalar("x")>>).thrown /\ AllLocked(push(this, <<Scalar("x")>>))

\* the space the claim describes between two adjacent items: none when the
\* item before ends with a quote or bracket or the item after starts with one
ClaimedSpace(before, after) == ~(quoteOrBracket(before[Len(before)]) \/ quoteOrBracket(after[1]))

\* C37: in compact mode toSLID puts a single space between two adjacent
\* items unless the last character of the item before or the first
\* character of the item after is a quote or bracket, so that parsing the
\* compact text gives the same container as parsing the text that is not
\* compact
C37_CompactSpaces ==
    /\ \A i \in 2..Len(_keys) :
            ~jointTest(itemsCompact(this, 1, 0, <<>>)[i - 1], itemsCompact(this, 1, 0, <<>>)[i])
                = ClaimedSpace(itemsCompact(this, 1, 0, <<>>)[i - 1], itemsCompact(this, 1, 0, <<>>)[i])
    /\ parseSLID(toSLIDCompact(this)) = parseSLID(toSLID(this, FALSE))

\* no key occurs twice in the key sequence
NoDuplicates(ks) == \A i, j \in Positions(ks) : i # j => ks[i] # ks[j]

\* C38: in every reachable state, lock of keys that are not present and
\* calls that throw included, the key sequence has no duplicates and its
\* keys are exactly the keys has() is true for, so that size is the number
\* of stored entries
C38_KeysAreStoredKeys ==
    /\ NoDuplicates(_keys)
    /\ \A k \in UL.keys \cup {"b"} : has(this, k) <=> k \in KeySet(_keys)
    /\ KeySet(_keys) = DOMAIN _storage
    /\ Len(_keys) = Cardinality(DOMAIN _storage)

\* C39: forEach(f) and find(f) end also when f adds keys to the container
\* they traverse, and push(c) ends when c is the container itself
C39_TraversalsFinish ==
    /\ \A f \in Callbacks : forEach(this, f).finished /\ find(this, f, undefined).finished
    /\ pushSelf(this).finished

\* no key-set lock and no value lock
NoLocks == ~_locked /\ \A k \in DOMAIN _storage : ~notWritable(this, k)

\* C40: on a container without key-set lock and without value locks,
\* reverse() called twice gives back the key sequence, the value of every
\* key and next as they were
C40_ReverseInvolution ==
    NoLocks =>
        /\ ~reverse(reverse(this)).thrown
        /\ reverse(reverse(this)).keys = _keys
        /\ \A k \in DOMAIN _storage : at(reverse(reverse(this)), k) = at(this, k)
        /\ reverse(reverse(this)).next = _next

\* an unlocked container with a named key and a trailing hole: one
\* reverse renames index 0 and turns the order, the second restores both
C40_Witness ==
    /\ NoLocks
    /\ Len(_keys) > 1 /\ _keys[1] = "0" /\ ~has(this, String(_next - 1))
    /\ \E i \in 1..Len(_keys) : ~isIndex(_keys[i])
    /\ ~has(reverse(this), "0")
    /\ reverse(this).keys[1] # "0"
    /\ reverse(reverse(this)).keys = _keys
    /\ at(reverse(reverse(this)), "0") = at(this, "0")

====
